---- MODULE Spec2Model ----
(***************************************************************************)
(* MCP server connection and tool-lifecycle management of the chat         *)
(* application: the user-server store (api/models/MCPServer.js), the       *)
(* service that validates, merges and triggers system refreshes           *)
(* (api/server/services/MCPServerService.js), startup initialisation      *)
(* (api/server/services/initializeMCP.js) and the refresh controllers     *)
(* refreshMCPServer / refreshAllMCPServers.                                *)
(*                                                                         *)
(* The connection manager (getMCPManager(): connections, mcpConfigs,      *)
(* initializeMCP, disconnectServer, disconnectAll, reinitialize,          *)
(* mapAvailableTools) and the tool cache (getCachedTools, setCachedTools, *)
(* getLogStores) are called by this code but defined elsewhere; they are  *)
(* modelled from the design document (sections 4.2, 4.4, 4.5 and 6).      *)
(***************************************************************************)
EXTENDS Integers, Sequences, FiniteSets, TLC

\* ------------------------------------------------------------------------
\* Bounds
\* ------------------------------------------------------------------------
\* number of server records ever created in the store
MaxServers == 1
\* number of requests that may be in flight at the same time
MaxProcs == 2
\* number of open transport connections counted per server name
MaxLive == 2

\* ------------------------------------------------------------------------
\* Domains
\* ------------------------------------------------------------------------
Users == {"u1", "u2"}
\* getMergedMCPConfig(userId = null)
NoUser == "null"
\* names of the servers of the file (YAML) configuration
YamlNames == {"a", "b"}
\* names a user may give to a server: one colliding with a file server, one new
UserNames == {"a", "c"}
Names == YamlNames \cup UserNames
ToolNames == {"t1", "t2"}
\* the tool sets a server may answer to a listing: server "a" changes its
\* tools from one version to another, the other servers expose one fixed tool
ToolSets(n) == IF n = "a" THEN {{"t1"}, {"t2"}} ELSE {{"t1"}}
Procs == 1..MaxProcs

\* ------------------------------------------------------------------------
\* Server configuration values
\* ------------------------------------------------------------------------
\* new URL(u).protocol of the config.url values "ws://h", "wss://h",
\* "http://h", "https://h"; "throws" when the constructor throws, as on
\* "not a url"; "" is the absent or empty url
URLProtocol(u) ==
  CASE u = "ws://h" -> "ws:"
    [] u = "wss://h" -> "wss:"
    [] u = "http://h" -> "http:"
    [] u = "https://h" -> "https:"
    [] OTHER -> "throws"

\* serverData.config absent
NoConfig == [defined |-> FALSE, command |-> "", args |-> "missing", url |-> ""]
StdioConfig(cmd, args) == [defined |-> TRUE, command |-> cmd, args |-> args, url |-> ""]
UrlConfig(u) == [defined |-> TRUE, command |-> "", args |-> "missing", url |-> u]

WebTypes == {"websocket", "sse", "streamable-http"}

\* validateServerConfig mutated: a thrown protocol error is not re-thrown
ValidateLenient(type, config) ==
  IF type = "" \/ ~config.defined THEN "Server type and config are required"
  ELSE IF type = "stdio" THEN
    IF config.command = "" THEN "Command is required for stdio type"
    ELSE IF config.args # "array" THEN "Args array is required for stdio type"
    ELSE "ok"
  ELSE IF type \in WebTypes THEN
    IF config.url = "" THEN "URL is required for web-based types"
    ELSE IF URLProtocol(config.url) = "throws" THEN "Invalid URL format"
    ELSE "ok"
  ELSE "ok"

\* validateServerConfig: "ok", or the message of the Error it throws
validateServerConfig(type, config) ==
  IF type = "" \/ ~config.defined THEN "Server type and config are required"
  ELSE IF type = "stdio" THEN
    IF config.command = "" THEN "Command is required for stdio type"
    ELSE IF config.args # "array" THEN "Args array is required for stdio type"
    ELSE "ok"
  ELSE IF type \in WebTypes THEN
    IF config.url = "" THEN "URL is required for web-based types"
    \* every throw inside the try block, the protocol errors included, is
    \* caught and replaced by 'Invalid URL format'
    ELSE IF URLProtocol(config.url) = "throws" THEN "Invalid URL format"
    ELSE IF type = "websocket" /\ URLProtocol(config.url) \notin {"ws:", "wss:"}
      THEN "Invalid URL format"
    ELSE IF type \in {"sse", "streamable-http"} /\ URLProtocol(config.url) \in {"ws:", "wss:"}
      THEN "Invalid URL format"
    ELSE "ok"
  ELSE "ok"

\* the request bodies createUserServer is called with: [type, config]
ValidInputs ==
  { [type |-> "sse", config |-> UrlConfig("https://h")] }
InvalidInputs ==
  { [type |-> "stdio", config |-> StdioConfig("", "array")],
    [type |-> "sse", config |-> UrlConfig("")],
    [type |-> "streamable-http", config |-> UrlConfig("not a url")],
    [type |-> "websocket", config |-> UrlConfig("http://h")],
    [type |-> "sse", config |-> UrlConfig("ws://h")],
    [type |-> "streamable-http", config |-> UrlConfig("wss://h")] }
ServerInputs == ValidInputs \cup InvalidInputs
\* a request that carries no server data
NoInput == [type |-> "", config |-> NoConfig]

\* validateServerConfig mutated: after the checks a stdio config without
\* args is given an empty args array
ValidateCallDefaultsArgs(serverData) ==
  [verdict |-> validateServerConfig(serverData.type, serverData.config),
   serverData |->
     IF serverData.type = "stdio" /\ serverData.config.defined
     THEN [serverData EXCEPT !.config.args = "array"] ELSE serverData]

\* one call validateServerConfig(serverData): the verdict, and serverData as
\* the call leaves it; the function reads type and config and assigns
\* nothing
ValidateCall(serverData) ==
  [verdict |-> validateServerConfig(serverData.type, serverData.config),
   serverData |-> serverData]

\* ------------------------------------------------------------------------
\* File configuration and merged configuration
\* ------------------------------------------------------------------------
\* an entry of the file configuration carries no user tags
YamlEntry(n) ==
  [type |-> "stdio", config |-> StdioConfig(n, "array"),
   _userDefined |-> FALSE, _userId |-> NoUser, _serverId |-> 0]

\* getYamlMCPConfig: config?.mcpServers
yamlConfig == [n \in YamlNames |-> YamlEntry(n)]

\* the serverConfig object mergeConfigurations builds from a store record
UserEntry(server) ==
  [type |-> server.type, config |-> server.config,
   _userDefined |-> TRUE, _userId |-> server.userId, _serverId |-> server.id]

\* merged[name] = value on a map whose domain is a set of names
Assign(m, name, value) ==
  [n \in (DOMAIN m) \cup {name} |-> IF n = name THEN value ELSE m[n]]

RECURSIVE MergeFileWins(_, _)
\* mergeConfigurations mutated: an existing file entry is kept
MergeFileWins(merged, userServers) ==
  IF userServers = << >> THEN merged
  ELSE LET server == Head(userServers) IN
       MergeFileWins(IF server.name \in DOMAIN merged THEN merged
                     ELSE Assign(merged, server.name, UserEntry(server)),
                     Tail(userServers))

RECURSIVE mergeConfigurations(_, _)
\* mergeConfigurations: userServers.forEach over a copy of yamlConfig
mergeConfigurations(merged, userServers) ==
  IF userServers = << >> THEN merged
  ELSE LET server == Head(userServers) IN
       mergeConfigurations(Assign(merged, server.name, UserEntry(server)),
                           Tail(userServers))

\* ------------------------------------------------------------------------
\* Catalog keys as strings
\* ------------------------------------------------------------------------
\* a string is a sequence of symbols; Constants.mcp_delimiter ('_mcp_') is
\* one symbol and " " is white space
mcp_delimiter == "_mcp_"

RECURSIVE trim(_)
\* String.prototype.trim, and the .trim() sanitizer of express-validator
trim(str) ==
  IF str = << >> THEN str
  ELSE IF Head(str) = " " THEN trim(Tail(str))
  ELSE IF str[Len(str)] = " " THEN trim(SubSeq(str, 1, Len(str) - 1))
  ELSE str

\* body('name').isString().trim().isLength({ min: 1, max: 100 })
AcceptsName(name) == Len(trim(name)) >= 1 /\ Len(trim(name)) <= 100

RECURSIVE split(_, _)
\* str.split(delimiter): the segments between the occurrences of delimiter
split(str, delimiter) ==
  IF str = << >> THEN << << >> >>
  ELSE LET rest == split(Tail(str), delimiter) IN
       IF Head(str) = delimiter THEN << << >> >> \o rest
       ELSE << <<Head(str)>> \o rest[1] >> \o Tail(rest)

RECURSIVE join(_, _)
\* parts.join(delimiter)
join(parts, delimiter) ==
  IF parts = << >> THEN << >>
  ELSE IF Len(parts) = 1 THEN parts[1]
  ELSE parts[1] \o <<delimiter>> \o join(Tail(parts), delimiter)

\* the catalog key <toolName><delimiter><serverName> of a published tool
pluginKey(toolName, serverName) == toolName \o <<mcp_delimiter>> \o serverName

\* useMCPSelect: parts = pluginKey.split(delimiter); parts[parts.length - 1]
SelectedServerName(key) ==
  LET parts == split(key, mcp_delimiter) IN parts[Len(parts)]

\* serverToolsMap: parts.slice(1).join(delimiter) when parts.length > 1
GroupedServerName(key) ==
  LET parts == split(key, mcp_delimiter) IN
  IF Len(parts) > 1 THEN join(Tail(parts), mcp_delimiter) ELSE << >>

\* a call of mergeConfigurations mutated: the entries are assigned on the
\* file configuration object itself instead of a copy
MergeCallInPlace(yaml, userServers) ==
  LET merged == mergeConfigurations(yaml, userServers) IN
  [result |-> merged, yamlConfig |-> merged, userServers |-> userServers]

\* a call of mergeConfigurations(yamlConfig, userServers): the returned map,
\* and the two argument objects as the call leaves them; merged is a copy
\* ({ ...yamlConfig }) and forEach only reads the list
MergeCall(yaml, userServers) ==
  [result |-> mergeConfigurations(yaml, userServers),
   yamlConfig |-> yaml, userServers |-> userServers]

\* ------------------------------------------------------------------------
\* State
\* ------------------------------------------------------------------------
VARIABLES
  store,                \* the mcpservers collection: a set of server records
  nextId,               \* _id given to the next created record
  yamlOverrideEnabled,  \* MCPServerService.yamlOverrideEnabled
  connections,          \* manager registry: names that have a registered connection
  liveConns,            \* open transport connections per server name
  mcpConfigs,           \* manager's stored configs: name -> last-known config
  discovered,           \* tools returned by the latest tool listing of a server
  toolsGlobal,          \* CONFIG_STORE[ToolCacheKeys.GLOBAL]: the shared tool catalog
  derivedCaches,        \* CONFIG_STORE[TOOLS], [PLUGINS] present; MCP_TOOLS entries
  boot,                 \* the startup run of initializeMCP(app)
  procs,                \* the requests in flight
  mergeOut,             \* the last getMergedMCPConfig(userId) call and its result
  flows,                \* the flow-state store (CacheKeys.FLOWS): flow id -> flow state
  published             \* the last two tools published under a catalog key

vars == <<store, nextId, yamlOverrideEnabled, connections, liveConns, mcpConfigs,
          discovered, toolsGlobal, derivedCaches, boot, procs, mergeOut, flows, published>>

storeVars == <<store, nextId, yamlOverrideEnabled>>
managerVars == <<connections, liveConns, mcpConfigs, discovered>>
cacheVars == <<toolsGlobal, derivedCaches>>

\* ------------------------------------------------------------------------
\* Tool catalog values
\* ------------------------------------------------------------------------
\* a catalog key <toolName><delimiter><serverName>
Key(tool, server) == <<tool, server>>
\* loadAndFormatTools(...): the built-in structured tools, owned by no server
BaseTools == {Key("calculator", "")}
\* getCachedTools() found nothing under the key
NoTools == [has |-> FALSE, keys |-> {}]
Cached(keys) == [has |-> TRUE, keys |-> keys]
\* the entries of one server in a tool map
EntriesOf(keys, server) == {k \in keys : k[2] = server}

\* ------------------------------------------------------------------------
\* User-server store (api/models/MCPServer.js)
\* ------------------------------------------------------------------------
RECURSIVE SortByCreatedDesc(_)
\* .sort({ createdAt: -1 }): newest record first
SortByCreatedDesc(S) ==
  IF S = {} THEN << >>
  ELSE LET newest == CHOOSE r \in S : \A q \in S : q.id <= r.id
       IN <<newest>> \o SortByCreatedDesc(S \ {newest})

\* getMCPServers mutated: the enabled filter is dropped
GetServersNoFilter(userId, enabled) ==
  SortByCreatedDesc({r \in store : r.userId = userId})

\* getMCPServers(query): enabled is "any" (undefined), "true" or "false"
getMCPServers(userId, enabled) ==
  SortByCreatedDesc({r \in store :
     /\ r.userId = userId
     /\ enabled # "any" => r.enabled = (enabled = "true")})

\* getUserServers mutated: the servers of every user are returned
GetUserServersAnyUser(userId, enabled) ==
  SortByCreatedDesc({r \in store : enabled # "any" => r.enabled = (enabled = "true")})

\* getUserServers(userId, filters)
getUserServers(userId, enabled) == getMCPServers(userId, enabled)

\* getMergedMCPConfig(userId = null): the userServers it passes to
\* mergeConfigurations
MergedUserServers(userId) ==
  IF userId # NoUser /\ ~yamlOverrideEnabled THEN getUserServers(userId, "true")
  ELSE << >>

\* getMergedMCPConfig mutated: the call without a user merges the enabled
\* servers of every user
MergedAllUsers(userId) ==
  LET userServers == IF yamlOverrideEnabled THEN << >>
                     ELSE IF userId # NoUser THEN getUserServers(userId, "true")
                     ELSE SortByCreatedDesc({r \in store : r.enabled})
  IN mergeConfigurations(yamlConfig, userServers)

\* getMergedMCPConfig(userId = null)
getMergedMCPConfig(userId) ==
  MergeCall(yamlConfig, MergedUserServers(userId)).result

\* tools: [] of a record: no tool; a tool list maps each tool name to its
\* enabled flag
NoToolList == [t \in {} |-> TRUE]

\* new MCPServer({...serverData, enabled default true, status 'unknown'})
NewServer(id, userId, name, input) ==
  [id |-> id, userId |-> userId, name |-> name, type |-> input.type,
   config |-> input.config, enabled |-> TRUE, status |-> "unknown",
   errorMessage |-> FALSE, lastConnected |-> FALSE, tools |-> NoToolList,
   toolCount |-> 0,
   description |-> ""]

\* the unique index userId_name_unique rejects the insert (error code 11000)
DuplicateName(userId, name) == \E r \in store : r.userId = userId /\ r.name = name

\* ------------------------------------------------------------------------
\* Connection manager (modelled from the design document)
\* ------------------------------------------------------------------------
Registered == {n \in Names : connections[n]}

\* disconnectServer(name) on the registry pair <<connections, liveConns>>:
\* remove(name) disconnects the registered connection and evicts it
DisconnectIn(conns, live, names) ==
  [connections |-> [n \in Names |-> IF n \in names THEN FALSE ELSE conns[n]],
   liveConns |-> [n \in Names |-> IF n \in names /\ conns[n] THEN live[n] - 1 ELSE live[n]]]

\* initializeMCP on the registry: every server of ok connected and registered
ConnectIn(conns, live, ok) ==
  [connections |-> [n \in Names |-> IF n \in ok THEN TRUE ELSE conns[n]],
   liveConns |-> [n \in Names |-> IF n \in ok THEN live[n] + 1 ELSE live[n]]]

\* the stored configs after initializeMCP({ mcpServers })
StoreConfigs(configs, mcpServers) ==
  [n \in (DOMAIN configs) \cup (DOMAIN mcpServers) |->
     IF n \in DOMAIN mcpServers THEN mcpServers[n] ELSE configs[n]]

\* mapAvailableTools(map): each registered server's entries are replaced by
\* the tools it lists now
MapTools(keys, conns, listing) ==
  {k \in keys : k[2] \notin Names \/ ~conns[k[2]]}
    \cup {k \in ToolNames \X Names : conns[k[2]] /\ k[1] \in listing[k[2]]}

\* the manager holds no config
EmptyConfigs == [n \in {} |-> YamlEntry("a")]

\* the tool listings the connected servers may answer at this moment; a
\* server without a registered connection is not listed
Listings(conns) ==
  {l \in [Names -> SUBSET ToolNames] :
     \A n \in Names : IF conns[n] THEN l[n] \in ToolSets(n) ELSE l[n] = {}}

\* the sets of servers of a config whose connect attempt may succeed
ConnectOutcomes(names, live) ==
  {ok \in SUBSET names : \A n \in ok : live[n] < MaxLive}

\* ------------------------------------------------------------------------
\* Requests
\* ------------------------------------------------------------------------
\* a request body field that holds a tool list, or is absent
NoToolsField == [defined |-> FALSE, list |-> NoToolList]
ToolsField(list) == [defined |-> TRUE, list |-> list]

\* the body of PUT /servers/:id, which is the updateData of updateUserServer:
\* each field is a new value or absent ("" for name, userId, status and
\* description, "keep" for enabled, "" and NoConfig for the type and the
\* config of input, NoToolsField for tools)
NoUpdate ==
  [name |-> "", enabled |-> "keep", input |-> NoInput, userId |-> "",
   status |-> "", tools |-> NoToolsField, description |-> ""]

Idle ==
  [op |-> "none", pc |-> "idle", arg |-> "", input |-> NoInput, names |-> {},
   cfg |-> EmptyConfigs, tmp |-> NoTools, res |-> "", hist |-> << >>,
   uid |-> "", sid |-> 0, probe |-> FALSE, failed |-> {}, body |-> NoUpdate,
   code |-> "", oauthError |-> "", tokens |-> "", elapsed |-> 0, initTimeout |-> 0]

\* ids of flow states: '<userId>:<serverName>' of the users and of the
\* system, and the id of a flow that a connection attempt of u1 waits on
FlowIds == {"u1:a", "u2:a", "system:a", "u1:a:t"}
\* `${user.id}:`
UserPrefix(userId) == CASE userId = "u1" -> "u1:" [] userId = "u2" -> "u2:" [] OTHER -> ":"
\* flowId.startsWith(prefix)
startsWith(flowId, prefix) ==
  CASE prefix = "u1:" -> flowId \in {"u1:a", "u1:a:t"}
    [] prefix = "u2:" -> flowId = "u2:a"
    [] prefix = "system:" -> flowId = "system:a"
    [] OTHER -> FALSE
\* the authorization codes of a callback and the tokens the exchange gives
Codes == {"c1", "c2"}
Tokens(code) == IF code = "c1" THEN "k1" ELSE "k2"
\* a flow id under which the store holds nothing, and the empty store
NoFlow == [status |-> "NONE", result |-> "", toolFlowId |-> ""]
NoFlows == [f \in FlowIds |-> NoFlow]
\* getFlowState(flowId, 'mcp_oauth'): the flow state or null
getFlowState(flowId) == IF flowId \in FlowIds THEN flows[flowId] ELSE NoFlow

Free(p) == boot.pc = "done" /\ procs[p].pc \in {"idle", "done"}
Begin(op, pc, arg) == [Idle EXCEPT !.op = op, !.pc = pc, !.arg = arg]
Done(op, arg, res) == [Idle EXCEPT !.op = op, !.pc = "done", !.arg = arg, !.res = res]
\* the request of p ends with result res
Finish(p, res) ==
  [Idle EXCEPT !.op = procs[p].op, !.pc = "done", !.arg = procs[p].arg,
               !.input = procs[p].input, !.res = res,
               !.uid = procs[p].uid, !.sid = procs[p].sid,
               !.probe = procs[p].probe, !.body = procs[p].body,
               !.names = IF procs[p].op = "callback" THEN procs[p].names ELSE {},
               !.code = procs[p].code, !.oauthError = procs[p].oauthError,
               !.tokens = procs[p].tokens,
               !.elapsed = procs[p].elapsed, !.initTimeout = procs[p].initTimeout]
Step(p, pc, event) ==
  [procs[p] EXCEPT !.pc = pc, !.hist = Append(procs[p].hist, event)]
At(p, op, pc) == procs[p].op = op /\ procs[p].pc = pc

\* getMergedMCPConfig has not been called
NoCall ==
  [userId |-> "", cfg |-> EmptyConfigs, yamlConfig |-> EmptyConfigs,
   userServers |-> << >>]

Init ==
  /\ store = {}
  /\ nextId = 1
  /\ yamlOverrideEnabled = FALSE
  /\ connections = [n \in Names |-> FALSE]
  /\ liveConns = [n \in Names |-> 0]
  /\ mcpConfigs = EmptyConfigs
  /\ discovered = [n \in Names |-> {}]
  \* the application may or may not have cached its built-in tools already
  /\ toolsGlobal \in {NoTools, Cached(BaseTools)}
  /\ derivedCaches = [tools |-> FALSE, plugins |-> FALSE, mcpTools |-> {}]
  /\ boot = [pc |-> "merge", cfg |-> EmptyConfigs, tmp |-> NoTools, err |-> ""]
  /\ procs = [p \in Procs |-> Idle]
  /\ mergeOut = NoCall
  /\ flows = NoFlows
  /\ published = << >>

\* ------------------------------------------------------------------------
\* Startup: initializeMCP(app)
\* ------------------------------------------------------------------------
\* const mergedMcpServers = await MCPServerService.getMergedMCPConfig()
BootMerge ==
  /\ boot.pc = "merge"
  /\ boot' = [boot EXCEPT !.pc = "init", !.cfg = getMergedMCPConfig(NoUser)]
  /\ UNCHANGED <<storeVars, managerVars, cacheVars, procs, mergeOut, flows, published>>

\* await mcpManager.initializeMCP({ mcpServers: mergedMcpServers, ... })
BootInit ==
  /\ boot.pc = "init"
  /\ \E ok \in ConnectOutcomes(DOMAIN boot.cfg, liveConns) :
       LET reg == ConnectIn(connections, liveConns, ok) IN
       /\ connections' = reg.connections
       /\ liveConns' = reg.liveConns
  /\ mcpConfigs' = StoreConfigs(mcpConfigs, boot.cfg)
  /\ boot' = [boot EXCEPT !.pc = "getCached"]
  /\ UNCHANGED <<storeVars, discovered, cacheVars, procs, mergeOut, flows, published>>

\* const availableTools = await getCachedTools(); if (!availableTools) return
BootGetCached ==
  /\ boot.pc = "getCached"
  /\ boot' = IF toolsGlobal.has
             THEN [boot EXCEPT !.pc = "map", !.tmp = toolsGlobal]
             ELSE [boot EXCEPT !.pc = "done"]
  /\ UNCHANGED <<storeVars, managerVars, cacheVars, procs, mergeOut, flows, published>>

\* await mcpManager.mapAvailableTools(toolsCopy, flowManager)
BootMap ==
  /\ boot.pc = "map"
  /\ \E l \in Listings(connections) :
       /\ discovered' = l
       /\ boot' = [boot EXCEPT !.pc = "set",
                               !.tmp = Cached(MapTools(boot.tmp.keys, connections, l))]
  /\ UNCHANGED <<storeVars, connections, liveConns, mcpConfigs, cacheVars, procs, mergeOut, flows, published>>

\* await setCachedTools(toolsCopy, { isGlobal: true })
BootSet ==
  /\ boot.pc = "set"
  /\ toolsGlobal' = boot.tmp
  /\ boot' = [boot EXCEPT !.pc = "deleteTools"]
  /\ UNCHANGED <<storeVars, managerVars, derivedCaches, procs, mergeOut, flows, published>>

\* await cache.delete(CacheKeys.TOOLS)
BootDeleteTools ==
  /\ boot.pc = "deleteTools"
  /\ derivedCaches' = [derivedCaches EXCEPT !.tools = FALSE]
  /\ boot' = [boot EXCEPT !.pc = "done"]
  /\ UNCHANGED <<storeVars, managerVars, toolsGlobal, procs, mergeOut, flows, published>>

\* the awaited calls of the try block
BootSteps == {"merge", "init", "getCached", "map", "set", "deleteTools"}

\* an awaited call of the try block rejects: control passes to the catch
\* block and the call has no effect
BootThrows ==
  /\ boot.pc \in BootSteps
  /\ boot' = [boot EXCEPT !.pc = "catch", !.err = boot.pc]
  /\ UNCHANGED <<storeVars, managerVars, cacheVars, procs, mergeOut, flows, published>>

\* the catch block mutated: the error is thrown again
BootCatchRethrows ==
  /\ boot.pc = "catch"
  /\ boot' = [boot EXCEPT !.pc = "threw"]
  /\ UNCHANGED <<storeVars, managerVars, cacheVars, procs, mergeOut, flows, published>>

\* catch (error) { logger.error('Failed to initialize MCP servers:', error) }
BootCatch ==
  /\ boot.pc = "catch"
  /\ boot' = [boot EXCEPT !.pc = "done"]
  /\ UNCHANGED <<storeVars, managerVars, cacheVars, procs, mergeOut, flows, published>>

\* ------------------------------------------------------------------------
\* Refresh One Server: refreshMCPServer(req, res)
\* ------------------------------------------------------------------------
\* refreshMCPServer mutated: the registry entry is not looked up
StartRefreshOneUnchecked(p, name) ==
  /\ Free(p)
  /\ procs' = [procs EXCEPT ![p] = Begin("refreshOne", "clear", name)]
  /\ UNCHANGED <<storeVars, managerVars, cacheVars, boot, mergeOut, flows, published>>

\* const connection = mcpManager.getConnection(serverName); 404 when absent
StartRefreshOne(p, name) ==
  /\ Free(p)
  /\ procs' = [procs EXCEPT ![p] =
       IF connections[name] THEN Begin("refreshOne", "clear", name)
       ELSE Done("refreshOne", name, "SERVER_NOT_FOUND")]
  /\ UNCHANGED <<storeVars, managerVars, cacheVars, boot, mergeOut, flows, published>>

\* refreshMCPServer mutated: the caches are left as they are
RefreshOneKeepCaches(p) ==
  /\ At(p, "refreshOne", "clear")
  /\ procs' = [procs EXCEPT ![p] = Step(p, "disconnect", "clear")]
  /\ UNCHANGED <<storeVars, managerVars, cacheVars, boot, mergeOut, flows, published>>

\* configCache.delete(GLOBAL), delete(TOOLS), delete(PLUGINS);
\* mcpToolsCache.delete(serverName)
RefreshOneClear(p) ==
  /\ At(p, "refreshOne", "clear")
  /\ toolsGlobal' = NoTools
  /\ derivedCaches' = [tools |-> FALSE, plugins |-> FALSE,
                       mcpTools |-> derivedCaches.mcpTools \ {procs[p].arg}]
  /\ procs' = [procs EXCEPT ![p] = Step(p, "disconnect", "clear")]
  /\ UNCHANGED <<storeVars, managerVars, boot, mergeOut, flows, published>>

\* await mcpManager.disconnectServer(serverName)
RefreshOneDisconnect(p) ==
  /\ At(p, "refreshOne", "disconnect")
  /\ LET reg == DisconnectIn(connections, liveConns, {procs[p].arg}) IN
       /\ connections' = reg.connections
       /\ liveConns' = reg.liveConns
  /\ discovered' = [discovered EXCEPT ![procs[p].arg] = {}]
  /\ procs' = [procs EXCEPT ![p] = Step(p, "reinit", "disconnect")]
  /\ UNCHANGED <<storeVars, mcpConfigs, cacheVars, boot, mergeOut, flows, published>>

\* const serverConfig = mcpManager.mcpConfigs?.[serverName]; 404 when absent;
\* await mcpManager.initializeMCP({ mcpServers: { [serverName]: serverConfig } })
RefreshOneReinit(p) ==
  /\ At(p, "refreshOne", "reinit")
  /\ LET name == procs[p].arg IN
     IF name \notin DOMAIN mcpConfigs
     THEN /\ procs' = [procs EXCEPT ![p] = Done("refreshOne", name, "CONFIG_NOT_FOUND")]
          /\ UNCHANGED <<connections, liveConns, mcpConfigs>>
     ELSE /\ \E ok \in ConnectOutcomes({name}, liveConns) :
               LET reg == ConnectIn(connections, liveConns, ok) IN
               /\ connections' = reg.connections
               /\ liveConns' = reg.liveConns
          /\ mcpConfigs' = StoreConfigs(mcpConfigs, [n \in {name} |-> mcpConfigs[name]])
          /\ procs' = [procs EXCEPT ![p] = Step(p, "map", "init")]
  /\ UNCHANGED <<storeVars, discovered, cacheVars, boot, mergeOut, flows, published>>

\* ------------------------------------------------------------------------
\* Refresh All Servers: refreshAllMCPServers(req, res)
\* ------------------------------------------------------------------------
\* refreshAllMCPServers mutated: an empty list of connections is refreshed
\* like any other
StartRefreshAllUnchecked(p) ==
  /\ Free(p)
  /\ procs' = [procs EXCEPT ![p] =
       [Begin("refreshAll", "clear", "") EXCEPT !.names = Registered]]
  /\ UNCHANGED <<storeVars, managerVars, cacheVars, boot, mergeOut, flows, published>>

\* const serverNames = Array.from(mcpManager.getAllConnections().keys());
\* an empty list is answered with 200 'No MCP servers found to refresh',
\* the result NO_SERVERS
StartRefreshAll(p) ==
  /\ Free(p)
  /\ procs' = [procs EXCEPT ![p] =
       IF Registered = {} THEN Done("refreshAll", "", "NO_SERVERS")
       ELSE [Begin("refreshAll", "clear", "") EXCEPT !.names = Registered]]
  /\ UNCHANGED <<storeVars, managerVars, cacheVars, boot, mergeOut, flows, published>>

\* configCache.delete(GLOBAL), delete(TOOLS), delete(PLUGINS);
\* mcpToolsCache.delete(serverName) for every serverName
RefreshAllClear(p) ==
  /\ At(p, "refreshAll", "clear")
  /\ toolsGlobal' = NoTools
  /\ derivedCaches' = [tools |-> FALSE, plugins |-> FALSE,
                       mcpTools |-> derivedCaches.mcpTools \ procs[p].names]
  /\ procs' = [procs EXCEPT ![p] = Step(p, "disconnect", "clear")]
  /\ UNCHANGED <<storeVars, managerVars, boot, mergeOut, flows, published>>

\* The errors one teardown can meet: none, or the disconnect of one of the
\* registered servers raises
DisconnectErrors(registered) == {{}} \cup {{n} : n \in registered}

\* disconnectAll mutated: a server whose disconnect raises an error stays
\* in the registry
RefreshAllDisconnectAborts(p) ==
  /\ At(p, "refreshAll", "disconnect")
  /\ \E raised \in DisconnectErrors(Registered) :
       /\ LET reg == DisconnectIn(connections, liveConns, Names \ raised) IN
            /\ connections' = reg.connections
            /\ liveConns' = reg.liveConns
       /\ procs' = [procs EXCEPT ![p] =
            [Step(p, "reinit", "disconnect") EXCEPT !.failed = raised]]
  /\ discovered' = [n \in Names |-> {}]
  /\ UNCHANGED <<storeVars, mcpConfigs, cacheVars, boot, mergeOut, flows, published>>

\* await mcpManager.disconnectAll(): every registered server is disconnected
\* and evicted; the disconnect of one of them may raise an error, which is
\* logged (the slot keeps the name) while the loop goes on
RefreshAllDisconnect(p) ==
  /\ At(p, "refreshAll", "disconnect")
  /\ LET reg == DisconnectIn(connections, liveConns, Names) IN
       /\ connections' = reg.connections
       /\ liveConns' = reg.liveConns
  /\ discovered' = [n \in Names |-> {}]
  /\ \E raised \in DisconnectErrors(Registered) :
       procs' = [procs EXCEPT ![p] =
         [Step(p, "reinit", "disconnect") EXCEPT !.failed = raised]]
  /\ UNCHANGED <<storeVars, mcpConfigs, cacheVars, boot, mergeOut, flows, published>>

\* const mcpConfigs = mcpManager.mcpConfigs || {}; 500 NO_CONFIGS_FOUND when
\* empty; await mcpManager.initializeMCP({ mcpServers: mcpConfigs }); a
\* disconnect error was only logged and is no part of the request from here
RefreshAllReinit(p) ==
  /\ At(p, "refreshAll", "reinit")
  /\ IF DOMAIN mcpConfigs = {}
     THEN /\ procs' = [procs EXCEPT ![p] = Done("refreshAll", "", "NO_CONFIGS_FOUND")]
          /\ UNCHANGED <<connections, liveConns>>
     ELSE /\ \E ok \in ConnectOutcomes(DOMAIN mcpConfigs, liveConns) :
               LET reg == ConnectIn(connections, liveConns, ok) IN
               /\ connections' = reg.connections
               /\ liveConns' = reg.liveConns
          /\ procs' = [procs EXCEPT ![p] =
               [Step(p, "map", "init") EXCEPT !.failed = {}]]
  /\ UNCHANGED <<storeVars, mcpConfigs, discovered, cacheVars, boot, mergeOut, flows, published>>

\* ------------------------------------------------------------------------
\* The rebuild shared by both refresh controllers
\* ------------------------------------------------------------------------
\* const cleanToolsCopy = { ...freshTools };
\* await mcpManager.mapAvailableTools(cleanToolsCopy, flowManager)
RefreshMap(p) ==
  /\ procs[p].op \in {"refreshOne", "refreshAll"} /\ procs[p].pc = "map"
  /\ \E l \in Listings(connections) :
       /\ discovered' = l
       /\ procs' = [procs EXCEPT ![p] =
            [Step(p, "publish", "map") EXCEPT
               !.tmp = Cached(MapTools(BaseTools, connections, l))]]
  /\ UNCHANGED <<storeVars, connections, liveConns, mcpConfigs, cacheVars, boot, mergeOut, flows, published>>

\* await setCachedTools(cleanToolsCopy, { isGlobal: true })
RefreshPublish(p) ==
  /\ procs[p].op \in {"refreshOne", "refreshAll"} /\ procs[p].pc = "publish"
  /\ toolsGlobal' = procs[p].tmp
  /\ procs' = [procs EXCEPT ![p] = Step(p, "respond", "publish")]
  /\ UNCHANGED <<storeVars, managerVars, derivedCaches, boot, mergeOut, flows, published>>

\* res.status(200).json({ message: '... refreshed successfully', ... });
\* Refresh All reports refreshedServers, the names registered now, and
\* failedServers, the names registered at the start that are not
RefreshRespond(p) ==
  /\ procs[p].op \in {"refreshOne", "refreshAll"} /\ procs[p].pc = "respond"
  /\ procs' = [procs EXCEPT ![p] =
       IF procs[p].op = "refreshAll"
       THEN [Finish(p, "200") EXCEPT !.names = Registered,
                                     !.failed = procs[p].names \ Registered]
       ELSE Finish(p, "200")]
  /\ UNCHANGED <<storeVars, managerVars, cacheVars, boot, mergeOut, flows, published>>

\* ------------------------------------------------------------------------
\* MCPServerService: the operations that write the store
\* ------------------------------------------------------------------------
\* createUserServer(userId, serverData): validateServerConfig, then
\* createMCPServer, then refreshMCPSystem. The validation is synchronous and
\* the insert is one database operation.
CreateUserServer(p, userId, name, input) ==
  /\ Free(p)
  /\ LET verdict == validateServerConfig(input.type, input.config) IN
     IF verdict # "ok"
     THEN /\ procs' = [procs EXCEPT ![p] =
                 [Done("create", name, verdict) EXCEPT !.input = input, !.uid = userId]]
          /\ UNCHANGED <<store, nextId>>
     ELSE IF DuplicateName(userId, name)
     THEN /\ procs' = [procs EXCEPT ![p] =
                 [Done("create", name, "already exists")
                    EXCEPT !.input = input, !.uid = userId]]
          /\ UNCHANGED <<store, nextId>>
     ELSE /\ nextId <= MaxServers
          /\ store' = store \cup {NewServer(nextId, userId, name, input)}
          /\ nextId' = nextId + 1
          /\ procs' = [procs EXCEPT ![p] =
                 [Begin("create", "sysMerge", name)
                    EXCEPT !.input = input, !.uid = userId, !.sid = nextId]]
  /\ UNCHANGED <<yamlOverrideEnabled, managerVars, cacheVars, boot, mergeOut, flows, published>>

\* updateMCPServer(serverId, userId, updateData) applied to record r:
\* findOneAndUpdate sets every field that updateData carries
Updated(r, updateData) ==
  [r EXCEPT !.name = IF updateData.name = "" THEN r.name ELSE updateData.name,
            !.enabled = IF updateData.enabled = "keep" THEN r.enabled
                        ELSE updateData.enabled = "true",
            !.type = IF updateData.input.type = "" THEN r.type ELSE updateData.input.type,
            !.config = IF updateData.input.config.defined THEN updateData.input.config
                       ELSE r.config,
            !.userId = IF updateData.userId = "" THEN r.userId ELSE updateData.userId,
            !.status = IF updateData.status = "" THEN r.status ELSE updateData.status,
            !.tools = IF updateData.tools.defined THEN updateData.tools.list ELSE r.tools,
            !.description = IF updateData.description = "" THEN r.description
                            ELSE updateData.description]

\* updateMCPServer mutated: the unique index is not enforced
UpdateUserServerNoIndex(p, userId, id, updateData) ==
  /\ Free(p)
  /\ LET verdict == IF updateData.input.config.defined
                    THEN validateServerConfig(updateData.input.type, updateData.input.config)
                    ELSE "ok"
         slot(q) == [q EXCEPT !.uid = userId, !.sid = id, !.body = updateData]
     IN
     IF verdict # "ok"
     THEN /\ procs' = [procs EXCEPT ![p] = slot(Done("update", "", verdict))]
          /\ UNCHANGED store
     ELSE IF ~\E r \in store : r.id = id /\ r.userId = userId
     THEN /\ procs' = [procs EXCEPT ![p] = slot(Done("update", "", "Server not found"))]
          /\ UNCHANGED store
     ELSE LET r == CHOOSE r \in store : r.id = id /\ r.userId = userId
              server == Updated(r, updateData)
          IN /\ store' = (store \ {r}) \cup {server}
             /\ procs' = [procs EXCEPT ![p] =
                  slot(IF server.enabled THEN Begin("update", "sysMerge", server.name)
                       ELSE Done("update", server.name, "ok"))]
  /\ UNCHANGED <<nextId, yamlOverrideEnabled, managerVars, cacheVars, boot, mergeOut, flows, published>>

\* updateUserServer(serverId, userId, updateData): validateServerConfig when
\* a config is given, with the type of updateData; updateMCPServer; and
\* refreshMCPSystem if the updated server is enabled
UpdateUserServer(p, userId, id, updateData) ==
  /\ Free(p)
  /\ LET verdict == IF updateData.input.config.defined
                    THEN validateServerConfig(updateData.input.type, updateData.input.config)
                    ELSE "ok"
         slot(q) == [q EXCEPT !.uid = userId, !.sid = id, !.body = updateData]
     IN
     IF verdict # "ok"
     THEN /\ procs' = [procs EXCEPT ![p] = slot(Done("update", "", verdict))]
          /\ UNCHANGED store
     ELSE IF ~\E r \in store : r.id = id /\ r.userId = userId
     THEN /\ procs' = [procs EXCEPT ![p] = slot(Done("update", "", "Server not found"))]
          /\ UNCHANGED store
     ELSE LET r == CHOOSE r \in store : r.id = id /\ r.userId = userId
              server == Updated(r, updateData)
          IN IF \E q \in store \ {r} : q.userId = server.userId /\ q.name = server.name
             THEN /\ procs' = [procs EXCEPT ![p] =
                       slot(Done("update", server.name, "already exists"))]
                  /\ UNCHANGED store
             ELSE /\ store' = (store \ {r}) \cup {server}
                  /\ procs' = [procs EXCEPT ![p] =
                       slot(IF server.enabled THEN Begin("update", "sysMerge", server.name)
                            ELSE Done("update", server.name, "ok"))]
  /\ UNCHANGED <<nextId, yamlOverrideEnabled, managerVars, cacheVars, boot, mergeOut, flows, published>>

\* validateUrlProtocol(req, res, next): "ok" when next() is called, or the
\* error of the 400 answer; a body without type or without config.url passes
validateUrlProtocol(type, config) ==
  IF type = "" \/ config.url = "" THEN "ok"
  ELSE IF URLProtocol(config.url) = "throws" THEN "Invalid URL format"
  ELSE IF type = "websocket" /\ URLProtocol(config.url) \notin {"ws:", "wss:"}
    THEN "WebSocket servers must use ws:// or wss:// protocol"
  ELSE IF type \in {"sse", "streamable-http"} /\ URLProtocol(config.url) \in {"ws:", "wss:"}
    THEN "SSE/HTTP servers cannot use WebSocket protocols"
  ELSE "ok"

\* PUT /servers/:id mutated: the userId of the body is not deleted
PutServerKeepsUserId(p, userId, id, body) ==
  IF validateUrlProtocol(body.input.type, body.input.config) # "ok"
  THEN /\ Free(p)
       /\ procs' = [procs EXCEPT ![p] =
            [Done("update", "", validateUrlProtocol(body.input.type, body.input.config))
               EXCEPT !.uid = userId, !.sid = id, !.body = body]]
       /\ UNCHANGED <<storeVars, managerVars, cacheVars, boot, mergeOut, flows, published>>
  ELSE UpdateUserServer(p, userId, id, body)

\* PUT /servers/:id: validateUpdateMCPServer checks the format of name, type,
\* description, enabled and config and removes no field; validateUrlProtocol;
\* delete updateData.userId; updateUserServer(id, userId, updateData)
PutServer(p, userId, id, body) ==
  IF validateUrlProtocol(body.input.type, body.input.config) # "ok"
  THEN /\ Free(p)
       /\ procs' = [procs EXCEPT ![p] =
            [Done("update", "", validateUrlProtocol(body.input.type, body.input.config))
               EXCEPT !.uid = userId, !.sid = id, !.body = body]]
       /\ UNCHANGED <<storeVars, managerVars, cacheVars, boot, mergeOut, flows, published>>
  ELSE UpdateUserServer(p, userId, id, [body EXCEPT !.userId = ""])

\* GET /servers/:id: getMCPServer(id, userId); 404 'Server not found' when
\* no record has this id and this owner
GetServer(p, userId, id) ==
  /\ Free(p)
  /\ procs' = [procs EXCEPT ![p] =
       [(IF \E r \in store : r.id = id /\ r.userId = userId
         THEN Done("get", (CHOOSE r \in store : r.id = id /\ r.userId = userId).name, "ok")
         ELSE Done("get", "", "Server not found"))
        EXCEPT !.uid = userId, !.sid = id]]
  /\ UNCHANGED <<storeVars, managerVars, cacheVars, boot, mergeOut, flows, published>>

\* toggleUserServer(serverId, userId, enabled): toggleMCPServer sets enabled
\* and, when disabling, status 'offline'; then refreshMCPSystem
ToggleUserServer(p, userId, id, enabled) ==
  /\ Free(p)
  /\ IF \E r \in store : r.id = id /\ r.userId = userId
     THEN LET r == CHOOSE r \in store : r.id = id /\ r.userId = userId IN
          /\ store' = (store \ {r}) \cup
               {[r EXCEPT !.enabled = enabled,
                          !.status = IF enabled THEN r.status ELSE "offline"]}
          /\ procs' = [procs EXCEPT ![p] =
               [Begin("toggle", "sysMerge", r.name) EXCEPT !.uid = userId, !.sid = id]]
     ELSE /\ procs' = [procs EXCEPT ![p] = Done("toggle", "", "Server not found")]
          /\ UNCHANGED store
  /\ UNCHANGED <<nextId, yamlOverrideEnabled, managerVars, cacheVars, boot, mergeOut, flows, published>>

\* deleteUserServer(serverId, userId): deleteMCPServer, then refreshMCPSystem
DeleteUserServer(p, userId, id) ==
  /\ Free(p)
  /\ IF \E r \in store : r.id = id /\ r.userId = userId
     THEN LET r == CHOOSE r \in store : r.id = id /\ r.userId = userId IN
          /\ store' = store \ {r}
          /\ procs' = [procs EXCEPT ![p] =
               [Begin("delete", "sysMerge", r.name) EXCEPT !.uid = userId, !.sid = id]]
     ELSE /\ procs' = [procs EXCEPT ![p] = Done("delete", "", "Server not found")]
          /\ UNCHANGED store
  /\ UNCHANGED <<nextId, yamlOverrideEnabled, managerVars, cacheVars, boot, mergeOut, flows, published>>

\* setYamlOverride(enabled): sets the flag, then refreshMCPSystem
SetYamlOverride(p, enabled) ==
  /\ Free(p)
  /\ yamlOverrideEnabled' = enabled
  /\ procs' = [procs EXCEPT ![p] = Begin("override", "sysMerge", "")]
  /\ UNCHANGED <<store, nextId, managerVars, cacheVars, boot, mergeOut, flows, published>>

\* ------------------------------------------------------------------------
\* MCPServerService.refreshMCPSystem()
\* ------------------------------------------------------------------------
SysOps == {"create", "update", "toggle", "delete", "override"}

\* const mergedConfig = await this.getMergedMCPConfig()
SysMerge(p) ==
  /\ procs[p].op \in SysOps /\ procs[p].pc = "sysMerge"
  /\ procs' = [procs EXCEPT ![p] =
       [Step(p, "sysReinit", "merge") EXCEPT !.cfg = getMergedMCPConfig(NoUser)]]
  /\ UNCHANGED <<storeVars, managerVars, cacheVars, boot, mergeOut, flows, published>>

\* await mcpManager.reinitialize(mergedConfig): the manager drops every
\* connection and initializes the servers of the new configuration
SysReinit(p) ==
  /\ procs[p].op \in SysOps /\ procs[p].pc = "sysReinit"
  /\ LET down == DisconnectIn(connections, liveConns, Names) IN
     \E ok \in ConnectOutcomes(DOMAIN procs[p].cfg, down.liveConns) :
       LET reg == ConnectIn(down.connections, down.liveConns, ok) IN
       /\ connections' = reg.connections
       /\ liveConns' = reg.liveConns
  /\ mcpConfigs' = procs[p].cfg
  /\ discovered' = [n \in Names |-> {}]
  /\ procs' = [procs EXCEPT ![p] = Step(p, "sysGet", "reinit")]
  /\ UNCHANGED <<storeVars, cacheVars, boot, mergeOut, flows, published>>

\* const availableTools = await getCachedTools(); if (availableTools) {
\*   const toolsCopy = { ...availableTools }; ... }
SysGetCached(p) ==
  /\ procs[p].op \in SysOps /\ procs[p].pc = "sysGet"
  /\ procs' = [procs EXCEPT ![p] =
       IF toolsGlobal.has
       THEN [Step(p, "sysMap", "get") EXCEPT !.tmp = toolsGlobal]
       ELSE Finish(p, "ok")]
  /\ UNCHANGED <<storeVars, managerVars, cacheVars, boot, mergeOut, flows, published>>

\* await mcpManager.mapAvailableTools(toolsCopy)
SysMap(p) ==
  /\ procs[p].op \in SysOps /\ procs[p].pc = "sysMap"
  /\ \E l \in Listings(connections) :
       /\ discovered' = l
       /\ procs' = [procs EXCEPT ![p] =
            [Step(p, "sysSet", "map") EXCEPT
               !.tmp = Cached(MapTools(procs[p].tmp.keys, connections, l))]]
  /\ UNCHANGED <<storeVars, connections, liveConns, mcpConfigs, cacheVars, boot, mergeOut, flows, published>>

\* await setCachedTools(toolsCopy, { isGlobal: true }); the service method
\* then returns to its caller
SysSet(p) ==
  /\ procs[p].op \in SysOps /\ procs[p].pc = "sysSet"
  /\ toolsGlobal' = procs[p].tmp
  /\ procs' = [procs EXCEPT ![p] =
       Finish(p, "ok")]
  /\ UNCHANGED <<storeVars, managerVars, derivedCaches, boot, mergeOut, flows, published>>

\* an awaited call of refreshMCPSystem rejects: the call has no effect, the
\* catch block logs and throws the error again, and so does the catch block
\* of the service method that awaits the refresh; the request ends with the
\* error
SysThrows(p) ==
  /\ procs[p].op \in SysOps
  /\ procs[p].pc \in {"sysMerge", "sysReinit", "sysGet", "sysMap", "sysSet"}
  /\ procs' = [procs EXCEPT ![p] = Finish(p, "refresh error")]
  /\ UNCHANGED <<storeVars, managerVars, cacheVars, boot, mergeOut, flows, published>>

\* ------------------------------------------------------------------------
\* Test Connection: MCPServerService.testServerConnection(serverId, userId)
\* ------------------------------------------------------------------------
\* updateMCPServerStatus(serverId, userId, statusData) on the store
UpdateStatus(id, userId, status, hasError, connected) ==
  {IF r.id = id /\ r.userId = userId
   THEN [r EXCEPT !.status = status,
                  !.errorMessage = IF status # "error" THEN FALSE ELSE hasError,
                  !.lastConnected = IF connected THEN TRUE ELSE r.lastConnected]
   ELSE r : r \in store}

\* updateMCPServerTools(serverId, userId, tools) on the store
UpdateTools(id, userId, tools) ==
  {IF r.id = id /\ r.userId = userId
   THEN [r EXCEPT !.tools = tools, !.toolCount = Cardinality(DOMAIN tools)]
   ELSE r : r \in store}

\* getMCPServer(serverId, userId); a missing server throws 'Server not found',
\* which the catch block answers with a status update that matches no record;
\* otherwise the status becomes 'connecting'
TestStart(p, userId, id) ==
  /\ Free(p)
  /\ IF \E r \in store : r.id = id /\ r.userId = userId
     THEN LET r == CHOOSE r \in store : r.id = id /\ r.userId = userId IN
          /\ store' = UpdateStatus(id, userId, "connecting", FALSE, FALSE)
          /\ procs' = [procs EXCEPT ![p] =
               [Begin("test", "testConnect", r.name) EXCEPT !.uid = userId, !.sid = id]]
     ELSE /\ procs' = [procs EXCEPT ![p] = Done("test", "", "Server not found")]
          /\ UNCHANGED store
  /\ UNCHANGED <<nextId, yamlOverrideEnabled, managerVars, cacheVars, boot, mergeOut, flows, published>>

\* mcpManager.testServerConnection(name, config), first half: the temporary
\* connection is opened, or the connect fails
TestConnect(p) ==
  /\ At(p, "test", "testConnect")
  /\ \E ok \in BOOLEAN :
       procs' = [procs EXCEPT ![p] =
         IF ok THEN [Step(p, "testDiscover", "connect") EXCEPT !.probe = TRUE]
         ELSE [Step(p, "testStatus", "connect") EXCEPT !.res = "failed"]]
  /\ UNCHANGED <<storeVars, managerVars, cacheVars, boot, mergeOut, flows, published>>

\* mcpManager.testServerConnection(name, config), second half: the tools are
\* listed or the listing fails; the temporary connection is disconnected
\* in both cases
TestDiscover(p) ==
  /\ At(p, "test", "testDiscover")
  /\ \/ \E ts \in ToolSets(procs[p].arg) :
          procs' = [procs EXCEPT ![p] =
            [Step(p, "testStatus", "discover") EXCEPT
               !.probe = FALSE, !.res = "success",
               !.tmp = Cached({Key(t, procs[p].arg) : t \in ts})]]
     \/ procs' = [procs EXCEPT ![p] =
          [Step(p, "testStatus", "discover") EXCEPT !.probe = FALSE, !.res = "failed"]]
  /\ UNCHANGED <<storeVars, managerVars, cacheVars, boot, mergeOut, flows, published>>

\* performConnectionTest returns; updateMCPServerStatus with 'online' and
\* lastConnected, or with 'error' and the error message
TestStatus(p) ==
  /\ At(p, "test", "testStatus")
  /\ LET success == procs[p].res = "success" IN
     /\ store' = UpdateStatus(procs[p].sid, procs[p].uid,
                              IF success THEN "online" ELSE "error", ~success, success)
     /\ procs' = [procs EXCEPT ![p] =
          IF success THEN Step(p, "testTools", "status") ELSE Finish(p, "failed")]
  /\ UNCHANGED <<nextId, yamlOverrideEnabled, managerVars, cacheVars, boot, mergeOut, flows, published>>

\* testServerConnection mutated: the discovered tools are also published
TestToolsPublished(p) ==
  /\ At(p, "test", "testTools")
  /\ store' = UpdateTools(procs[p].sid, procs[p].uid,
                          [k \in {q[1] : q \in procs[p].tmp.keys} |-> TRUE])
  /\ toolsGlobal' = Cached(toolsGlobal.keys \cup procs[p].tmp.keys)
  /\ procs' = [procs EXCEPT ![p] = Finish(p, "success")]
  /\ UNCHANGED <<nextId, yamlOverrideEnabled, managerVars, derivedCaches, boot, mergeOut, flows, published>>

\* if (testResult.success && testResult.tools)
\*   await updateMCPServerTools(serverId, userId, testResult.tools)
TestTools(p) ==
  /\ At(p, "test", "testTools")
  /\ store' = UpdateTools(procs[p].sid, procs[p].uid,
                          [k \in {q[1] : q \in procs[p].tmp.keys} |-> TRUE])
  /\ procs' = [procs EXCEPT ![p] = Finish(p, "success")]
  /\ UNCHANGED <<nextId, yamlOverrideEnabled, managerVars, cacheVars, boot, mergeOut, flows, published>>

\* ------------------------------------------------------------------------
\* Tools of a stored server
\* ------------------------------------------------------------------------
\* refreshServerTools(serverId, userId): getMCPServer; 'Server not found'
\* when absent
RefreshToolsStart(p, userId, id) ==
  /\ Free(p)
  /\ procs' = [procs EXCEPT ![p] =
       IF \E r \in store : r.id = id /\ r.userId = userId
       THEN LET r == CHOOSE r \in store : r.id = id /\ r.userId = userId IN
            [Begin("refreshTools", "toolsDiscover", r.name) EXCEPT
               !.uid = userId, !.sid = id]
       ELSE Done("refreshTools", "", "Server not found")]
  /\ UNCHANGED <<storeVars, managerVars, cacheVars, boot, mergeOut, flows, published>>

\* refreshServerTools mutated: a failure of the tool listing is thrown to
\* the caller and the stored tools stay as they were
RefreshToolsDiscoverThrows(p) ==
  /\ At(p, "refreshTools", "toolsDiscover")
  /\ \/ \E ts \in ToolSets(procs[p].arg) :
          /\ store' = UpdateTools(procs[p].sid, procs[p].uid, [t \in ts |-> TRUE])
          /\ procs' = [procs EXCEPT ![p] = Finish(p, "ok")]
     \/ /\ store' = store
        /\ procs' = [procs EXCEPT ![p] =
             [Finish(p, "Failed to refresh tools") EXCEPT !.failed = {procs[p].arg}]]
  /\ UNCHANGED <<nextId, yamlOverrideEnabled, managerVars, cacheVars, boot, mergeOut, flows, published>>

\* discoverServerTools(server): the tools the manager discovers, every one
\* formatted with enabled: true, or [] when the discovery throws (the slot
\* keeps the name of the server whose listing failed); then
\* updateMCPServerTools and the answer with tools and toolCount
RefreshToolsDiscover(p) ==
  /\ At(p, "refreshTools", "toolsDiscover")
  /\ \/ \E ts \in ToolSets(procs[p].arg) :
          /\ store' = UpdateTools(procs[p].sid, procs[p].uid, [t \in ts |-> TRUE])
          /\ procs' = [procs EXCEPT ![p] = Finish(p, "ok")]
     \/ /\ store' = UpdateTools(procs[p].sid, procs[p].uid, NoToolList)
        /\ procs' = [procs EXCEPT ![p] =
             [Finish(p, "ok") EXCEPT !.failed = {procs[p].arg}]]
  /\ UNCHANGED <<nextId, yamlOverrideEnabled, managerVars, cacheVars, boot, mergeOut, flows, published>>

\* PUT /servers/:id/tools/:toolName/toggle: 404 'Server not found', 404 'Tool
\* not found'; otherwise the flag is set on the fetched copy and the call of
\* updateMCPServerTools, a name the route file neither imports nor defines,
\* throws a ReferenceError that the catch block answers with 500 'Failed to
\* toggle tool': nothing is saved. The slot keeps the requested tool and
\* flag as a tools field.
ToggleTool(p, userId, id, toolName, enabled) ==
  /\ Free(p)
  /\ LET slot(q) == [q EXCEPT !.uid = userId, !.sid = id,
                              !.body = [NoUpdate EXCEPT
                                 !.tools = ToolsField([t \in {toolName} |-> enabled])]]
     IN
     procs' = [procs EXCEPT ![p] =
       IF ~\E r \in store : r.id = id /\ r.userId = userId
       THEN slot(Done("toggleTool", "", "Server not found"))
       ELSE LET r == CHOOSE r \in store : r.id = id /\ r.userId = userId IN
            IF toolName \notin DOMAIN r.tools
            THEN slot(Done("toggleTool", r.name, "Tool not found"))
            ELSE slot(Done("toggleTool", r.name, "Failed to toggle tool"))]
  /\ UNCHANGED <<storeVars, managerVars, cacheVars, boot, mergeOut, flows, published>>

\* ------------------------------------------------------------------------
\* OAuth flows
\* ------------------------------------------------------------------------
\* a connection attempt that needs authorization creates a PENDING flow whose
\* metadata may name the flow the attempt waits on (toolFlowId)
CreateFlow(flowId, toolFlowId) ==
  /\ boot.pc = "done"
  /\ flows[flowId].status = "NONE"
  /\ flows' = [flows EXCEPT ![flowId] =
       [status |-> "PENDING", result |-> "", toolFlowId |-> toolFlowId]]
  /\ UNCHANGED <<storeVars, managerVars, cacheVars, boot, procs, mergeOut, published>>

\* GET /:serverName/oauth/callback up to the flow lookup: an error of the
\* provider, a missing code, a missing state and a state that matches no flow
\* redirect to /oauth/error; otherwise the flow state is kept (its
\* metadata.toolFlowId in names) and completeOAuthFlow follows
OAuthCallback(p, state, code, oauthError) ==
  /\ Free(p)
  /\ LET slot(q) == [q EXCEPT !.code = code, !.oauthError = oauthError]
         flowState == getFlowState(state)
     IN
     procs' = [procs EXCEPT ![p] =
       IF oauthError # "" THEN slot(Done("callback", state, oauthError))
       ELSE IF code = "" THEN slot(Done("callback", state, "missing_code"))
       ELSE IF state = "" THEN slot(Done("callback", state, "missing_state"))
       ELSE IF flowState.status = "NONE"
            THEN slot(Done("callback", state, "invalid_state"))
       ELSE [slot(Begin("callback", "completeOAuthFlow", state)) EXCEPT
               !.names = IF flowState.toolFlowId = "" THEN {}
                         ELSE {flowState.toolFlowId}]]
  /\ UNCHANGED <<storeVars, managerVars, cacheVars, boot, mergeOut, flows, published>>

\* completeOAuthFlow mutated: the code is exchanged but the flow is not
\* marked COMPLETED
CompleteOAuthFlowExchangeOnly(p) ==
  /\ At(p, "callback", "completeOAuthFlow")
  /\ LET tokens == Tokens(procs[p].code) IN
     \/ /\ flows' = flows
        /\ procs' = [procs EXCEPT ![p] =
             IF procs[p].names = {}
             THEN [Finish(p, "success") EXCEPT !.tokens = tokens]
             ELSE [procs[p] EXCEPT !.pc = "completeFlow", !.tokens = tokens]]
     \/ /\ flows' = [flows EXCEPT ![procs[p].arg].status = "FAILED"]
        /\ procs' = [procs EXCEPT ![p] = Finish(p, "callback_failed")]
  /\ UNCHANGED <<storeVars, managerVars, cacheVars, boot, mergeOut, published>>

\* MCPOAuthHandler.completeOAuthFlow(flowId, code, flowManager): the code is
\* exchanged for tokens and the flow is completed with them, or the exchange
\* fails, the flow is failed and the catch block redirects with
\* callback_failed
CompleteOAuthFlow(p) ==
  /\ At(p, "callback", "completeOAuthFlow")
  /\ LET tokens == Tokens(procs[p].code) IN
     \/ /\ flows' = [flows EXCEPT ![procs[p].arg].status = "COMPLETED",
                                  ![procs[p].arg].result = tokens]
        /\ procs' = [procs EXCEPT ![p] =
             IF procs[p].names = {}
             THEN [Finish(p, "success") EXCEPT !.tokens = tokens]
             ELSE [procs[p] EXCEPT !.pc = "completeFlow", !.tokens = tokens]]
     \/ /\ flows' = [flows EXCEPT ![procs[p].arg].status = "FAILED"]
        /\ procs' = [procs EXCEPT ![p] = Finish(p, "callback_failed")]
  /\ UNCHANGED <<storeVars, managerVars, cacheVars, boot, mergeOut, published>>

\* if (toolFlowId) await flowManager.completeFlow(toolFlowId, 'mcp_oauth',
\* tokens): a stored flow is completed with the tokens, an absent one is left
\* absent; then the redirect to /oauth/success
CompleteToolFlow(p) ==
  /\ At(p, "callback", "completeFlow")
  /\ LET toolFlowId == CHOOSE g \in procs[p].names : TRUE IN
     flows' = IF flows[toolFlowId].status = "NONE" THEN flows
              ELSE [flows EXCEPT ![toolFlowId].status = "COMPLETED",
                                 ![toolFlowId].result = procs[p].tokens]
  /\ procs' = [procs EXCEPT ![p] = Finish(p, "success")]
  /\ UNCHANGED <<storeVars, managerVars, cacheVars, boot, mergeOut, published>>

\* GET /oauth/tokens/:flowId mutated: the flow id is not compared with the
\* id of the user
GetTokensAnyScope(p, userId, flowId) ==
  /\ Free(p)
  /\ LET flowState == getFlowState(flowId)
         slot(q) == [q EXCEPT !.uid = userId]
     IN
     procs' = [procs EXCEPT ![p] =
       IF userId = "" THEN slot(Done("getTokens", flowId, "401"))
       ELSE IF flowState.status = "NONE" THEN slot(Done("getTokens", flowId, "404"))
       ELSE IF flowState.status # "COMPLETED"
            THEN slot(Done("getTokens", flowId, "400"))
       ELSE [slot(Done("getTokens", flowId, "200")) EXCEPT !.tokens = flowState.result]]
  /\ UNCHANGED <<storeVars, managerVars, cacheVars, boot, mergeOut, flows, published>>

\* GET /oauth/tokens/:flowId: 401 without a user, 403 unless the flow id
\* starts with the user's id and ':' or with 'system:', 404 when no flow is
\* stored, 400 unless the flow is COMPLETED, else the tokens of the flow
GetTokens(p, userId, flowId) ==
  /\ Free(p)
  /\ LET flowState == getFlowState(flowId)
         slot(q) == [q EXCEPT !.uid = userId]
     IN
     procs' = [procs EXCEPT ![p] =
       IF userId = "" THEN slot(Done("getTokens", flowId, "401"))
       ELSE IF ~startsWith(flowId, UserPrefix(userId)) /\ ~startsWith(flowId, "system:")
            THEN slot(Done("getTokens", flowId, "403"))
       ELSE IF flowState.status = "NONE" THEN slot(Done("getTokens", flowId, "404"))
       ELSE IF flowState.status # "COMPLETED"
            THEN slot(Done("getTokens", flowId, "400"))
       ELSE [slot(Done("getTokens", flowId, "200")) EXCEPT !.tokens = flowState.result]]
  /\ UNCHANGED <<storeVars, managerVars, cacheVars, boot, mergeOut, flows, published>>

\* ------------------------------------------------------------------------
\* Publication of a tool under its catalog key
\* ------------------------------------------------------------------------
\* a server created under a name that validateCreateMCPServer accepts (the
\* name is stored trimmed) publishes a tool; the client reads the server
\* name back from the key; the last two publications are kept
PublishTool(toolName, name) ==
  /\ AcceptsName(name)
  /\ LET serverName == trim(name)
         key == pluginKey(toolName, serverName)
         entry == [toolName |-> toolName, serverName |-> serverName,
                   pluginKey |-> key,
                   selected |-> SelectedServerName(key),
                   grouped |-> GroupedServerName(key)]
     IN published' = IF Len(published) < 2 THEN Append(published, entry)
                     ELSE <<published[2], entry>>
  /\ published' # published
  /\ UNCHANGED <<storeVars, managerVars, cacheVars, boot, procs, mergeOut, flows>>

\* ------------------------------------------------------------------------
\* Readers of the tool cache
\* ------------------------------------------------------------------------
\* a tool request or model call rebuilds the caches derived from the catalog
ReadTools ==
  /\ boot.pc = "done"
  /\ toolsGlobal.has
  /\ derivedCaches' = [tools |-> TRUE, plugins |-> TRUE, mcpTools |-> Registered]
  /\ derivedCaches' # derivedCaches
  /\ UNCHANGED <<storeVars, managerVars, toolsGlobal, boot, procs, mergeOut, flows, published>>

\* ------------------------------------------------------------------------
\* Callers of getMergedMCPConfig(userId)
\* ------------------------------------------------------------------------
\* const merged = await MCPServerService.getMergedMCPConfig(userId); the
\* file configuration and the list of user servers handed to
\* mergeConfigurations are kept as the call leaves them
GetMergedConfig(userId) ==
  /\ boot.pc = "done"
  /\ LET call == MergeCall(yamlConfig, MergedUserServers(userId)) IN
     mergeOut' = [userId |-> userId, cfg |-> call.result,
                  yamlConfig |-> call.yamlConfig, userServers |-> call.userServers]
  /\ UNCHANGED <<storeVars, managerVars, cacheVars, boot, procs, flows, published>>

\* ------------------------------------------------------------------------
\* Specifications
\* ------------------------------------------------------------------------
\* the steps of refreshMCPServer after its start
RefreshOneSteps(p) ==
  \/ RefreshOneClear(p)
  \/ RefreshOneDisconnect(p)
  \/ RefreshOneReinit(p)
  \/ RefreshMap(p)
  \/ RefreshPublish(p)
  \/ RefreshRespond(p)

\* the steps refreshAllMCPServers does not share with refreshMCPServer
RefreshAllSteps(p) ==
  \/ RefreshAllClear(p)
  \/ RefreshAllDisconnect(p)
  \/ RefreshAllReinit(p)

\* the steps of refreshMCPSystem
SysSteps(p) ==
  \/ SysMerge(p)
  \/ SysReinit(p)
  \/ SysGetCached(p)
  \/ SysMap(p)
  \/ SysSet(p)

Startup ==
  \/ BootMerge
  \/ BootInit
  \/ BootGetCached
  \/ BootMap
  \/ BootSet
  \/ BootDeleteTools

\* the request slot of the sequential specifications
Main == CHOOSE p \in Procs : \A q \in Procs : p <= q

\* Store and service: startup, then one request at a time; the requests are
\* the store-writing service operations and Refresh One Server
Next ==
  \/ Startup
  \/ \E name \in Names : StartRefreshOne(Main, name)
  \/ \E userId \in Users, name \in UserNames, input \in ValidInputs :
       CreateUserServer(Main, userId, name, input)
  \/ \E userId \in Users, id \in 1..MaxServers, enabled \in BOOLEAN :
       ToggleUserServer(Main, userId, id, enabled)
  \/ \E userId \in Users, id \in 1..MaxServers : DeleteUserServer(Main, userId, id)
  \/ \E enabled \in BOOLEAN : SetYamlOverride(Main, enabled)
  \/ RefreshOneSteps(Main)
  \/ SysSteps(Main)

Spec == Init /\ [][Next]_vars

\* Refresh lifecycle: startup, then one refresh at a time, and a reader of
\* the tool cache between its steps
NextLifecycle ==
  \/ Startup
  \/ \E name \in Names : StartRefreshOne(Main, name)
  \/ StartRefreshAll(Main)
  \/ \E enabled \in BOOLEAN : SetYamlOverride(Main, enabled)
  \/ RefreshOneSteps(Main)
  \/ RefreshAllSteps(Main)
  \/ SysSteps(Main)
  \/ ReadTools

SpecLifecycle == Init /\ [][NextLifecycle]_vars

\* Overlapping refreshes: the requests are served on one event loop and
\* interleave at every await
NextConcurrent ==
  \/ Startup
  \/ \E p \in Procs, name \in Names : StartRefreshOne(p, name)
  \/ \E p \in Procs : StartRefreshAll(p)
  \/ \E p \in Procs : RefreshOneSteps(p)
  \/ \E p \in Procs : RefreshAllSteps(p)

SpecConcurrent == Init /\ [][NextConcurrent]_vars

\* the updates tried on a stored server: a rename or a switch of enabled
Updates ==
  {[NoUpdate EXCEPT !.name = n] : n \in UserNames}
    \cup {[NoUpdate EXCEPT !.enabled = e] : e \in {"true", "false"}}

\* Creation: startup, then createUserServer called with valid and invalid
\* request bodies, one call at a time, and deleteUserServer
NextCreate ==
  \/ Startup
  \/ \E userId \in Users, name \in UserNames, input \in ServerInputs :
       CreateUserServer(Main, userId, name, input)
  \/ \E userId \in Users, id \in 1..MaxServers : DeleteUserServer(Main, userId, id)
  \/ SysSteps(Main)

SpecCreate == Init /\ [][NextCreate]_vars

\* the steps of testServerConnection and refreshServerTools
ToolSteps(p) ==
  \/ TestConnect(p)
  \/ TestDiscover(p)
  \/ TestStatus(p)
  \/ TestTools(p)
  \/ RefreshToolsDiscover(p)

\* number of records of a drawn store
MaxRecords == 2

\* a store record as createMCPServer and toggleMCPServer leave it
DrawnServer(id, userId, name, enabled) ==
  [NewServer(id, userId, name, CHOOSE input \in ValidInputs : TRUE) EXCEPT
     !.enabled = enabled, !.status = IF enabled THEN "unknown" ELSE "offline"]

\* the stores of at most MaxRecords records; the unique index on
\* (userId, name) holds in each
DrawnStores ==
  UNION { { {DrawnServer(i, f[i][1], f[i][2], f[i][3]) : i \in 1..k} :
            f \in {g \in [1..k -> Users \X UserNames \X BOOLEAN] :
                     \A i, j \in 1..k :
                       i # j => <<g[i][1], g[i][2]>> # <<g[j][1], g[j][2]>>} } :
          k \in 0..MaxRecords }

\* a server stored before this start of the application
Persisted(name) == DrawnServer(MaxServers + 1, CHOOSE u \in Users : TRUE, name, TRUE)

\* the application starts on a store that holds one server already, of a
\* name that the file configuration uses too
InitStore ==
  /\ store = {Persisted(CHOOSE n \in UserNames \cap YamlNames : TRUE)}
  /\ nextId = 1
  /\ yamlOverrideEnabled = FALSE
  /\ connections = [n \in Names |-> FALSE]
  /\ liveConns = [n \in Names |-> 0]
  /\ mcpConfigs = EmptyConfigs
  /\ discovered = [n \in Names |-> {}]
  /\ toolsGlobal \in {NoTools, Cached(BaseTools)}
  /\ derivedCaches = [tools |-> FALSE, plugins |-> FALSE, mcpTools |-> {}]
  /\ boot = [pc |-> "merge", cfg |-> EmptyConfigs, tmp |-> NoTools, err |-> ""]
  /\ procs = [p \in Procs |-> Idle]
  /\ mergeOut = NoCall
  /\ flows = NoFlows
  /\ published = << >>

\* Store: startup, then the store-writing service operations, one call at
\* a time
NextStore ==
  \/ Startup
  \/ \E userId \in Users, name \in UserNames, input \in ValidInputs :
       CreateUserServer(Main, userId, name, input)
  \/ \E userId \in Users, id \in 1..MaxServers, updateData \in Updates :
       UpdateUserServer(Main, userId, id, updateData)
  \/ \E userId \in Users, id \in 1..MaxServers, enabled \in BOOLEAN :
       ToggleUserServer(Main, userId, id, enabled)
  \/ \E userId \in Users, id \in 1..MaxServers : DeleteUserServer(Main, userId, id)
  \/ SysSteps(Main)

SpecStore == InitStore /\ [][NextStore]_vars

\* the application starts on a store that holds one server, of any name a
\* user may give
InitTools ==
  /\ store \in {{Persisted(n)} : n \in UserNames}
  /\ nextId = 1
  /\ yamlOverrideEnabled = FALSE
  /\ connections = [n \in Names |-> FALSE]
  /\ liveConns = [n \in Names |-> 0]
  /\ mcpConfigs = EmptyConfigs
  /\ discovered = [n \in Names |-> {}]
  /\ toolsGlobal \in {NoTools, Cached(BaseTools)}
  /\ derivedCaches = [tools |-> FALSE, plugins |-> FALSE, mcpTools |-> {}]
  /\ boot = [pc |-> "merge", cfg |-> EmptyConfigs, tmp |-> NoTools, err |-> ""]
  /\ procs = [p \in Procs |-> Idle]
  /\ mergeOut = NoCall
  /\ flows = NoFlows
  /\ published = << >>

\* the body of an update request that carries a tools list with a tool
\* switched off
ToolBodies == {[NoUpdate EXCEPT !.tools = ToolsField([t \in {"t1"} |-> FALSE])]}

\* Stored tools: startup, then the stored server is tested, its tools are
\* refreshed, toggled and written through PUT /servers/:id, and the server
\* is toggled (with the system refresh that follows), one request at a time
NextTools ==
  \/ Startup
  \/ \E userId \in Users, id \in 1..(MaxServers + 1), body \in ToolBodies :
       PutServer(Main, userId, id, body)
  \/ \E userId \in Users, id \in 1..(MaxServers + 1) : TestStart(Main, userId, id)
  \/ \E userId \in Users, id \in 1..(MaxServers + 1) : RefreshToolsStart(Main, userId, id)
  \/ \E userId \in Users, id \in 1..(MaxServers + 1), toolName \in ToolNames,
        enabled \in BOOLEAN :
       ToggleTool(Main, userId, id, toolName, enabled)
  \/ \E userId \in Users, id \in 1..(MaxServers + 1), enabled \in BOOLEAN :
       ToggleUserServer(Main, userId, id, enabled)
  \/ ToolSteps(Main)
  \/ SysSteps(Main)

SpecTools == InitTools /\ [][NextTools]_vars

\* the application starts on an empty store; the cache store may hold a tools
\* key written before this start
InitStartup ==
  /\ store = {}
  /\ nextId = 1
  /\ yamlOverrideEnabled = FALSE
  /\ connections = [n \in Names |-> FALSE]
  /\ liveConns = [n \in Names |-> 0]
  /\ mcpConfigs = EmptyConfigs
  /\ discovered = [n \in Names |-> {}]
  /\ toolsGlobal \in {NoTools, Cached(BaseTools)}
  /\ derivedCaches \in {[tools |-> stale, plugins |-> FALSE, mcpTools |-> {}] :
                          stale \in BOOLEAN}
  /\ boot = [pc |-> "merge", cfg |-> EmptyConfigs, tmp |-> NoTools, err |-> ""]
  /\ procs = [p \in Procs |-> Idle]
  /\ mergeOut = NoCall
  /\ flows = NoFlows
  /\ published = << >>

\* Startup with failures: each awaited call of initializeMCP may reject;
\* afterwards readers rebuild the derived caches
NextStartup ==
  \/ Startup
  \/ BootThrows
  \/ BootCatch
  \/ ReadTools

SpecStartup == InitStartup /\ [][NextStartup]_vars

\* the ids of the servers stored before this start, one for each user
OwnedIds == (MaxServers + 1)..(MaxServers + Cardinality(Users))

\* the owner of each of them
OwnerOf ==
  CHOOSE f \in [OwnedIds -> Users] : \A i, j \in OwnedIds : i # j => f[i] # f[j]

\* the name of each of them
NameOf ==
  CHOOSE f \in [OwnedIds -> UserNames] : \A i, j \in OwnedIds : i # j => f[i] # f[j]

\* the application starts on a store in which every user owns one server
InitOwners ==
  /\ store = {DrawnServer(i, OwnerOf[i], NameOf[i], TRUE) : i \in OwnedIds}
  /\ nextId = 1
  /\ yamlOverrideEnabled = FALSE
  /\ connections = [n \in Names |-> FALSE]
  /\ liveConns = [n \in Names |-> 0]
  /\ mcpConfigs = EmptyConfigs
  /\ discovered = [n \in Names |-> {}]
  /\ toolsGlobal = Cached(BaseTools)
  /\ derivedCaches = [tools |-> FALSE, plugins |-> FALSE, mcpTools |-> {}]
  /\ boot = [pc |-> "merge", cfg |-> EmptyConfigs, tmp |-> NoTools, err |-> ""]
  /\ procs = [p \in Procs |-> Idle]
  /\ mergeOut = NoCall
  /\ flows = NoFlows
  /\ published = << >>

\* the bodies of the update requests of the ownership specification: a new
\* owner, alone or with a new status
OwnerBodies ==
  {[NoUpdate EXCEPT !.userId = u] : u \in Users}
    \cup {[NoUpdate EXCEPT !.userId = u, !.status = "online"] : u \in Users}

\* the user who sends the requests of the ownership specification
Caller == CHOOSE u \in Users : TRUE

\* Ownership: startup, then one user sends the requests that name a server
\* id, for the own server and for the server of the other user
NextOwners ==
  \/ Startup
  \/ \E id \in OwnedIds : GetServer(Main, Caller, id)
  \/ \E id \in OwnedIds, body \in OwnerBodies : PutServer(Main, Caller, id, body)
  \/ \E id \in OwnedIds : DeleteUserServer(Main, Caller, id)
  \/ \E id \in OwnedIds, enabled \in BOOLEAN : ToggleUserServer(Main, Caller, id, enabled)
  \/ \E id \in OwnedIds, toolName \in ToolNames, enabled \in BOOLEAN :
       ToggleTool(Main, Caller, id, toolName, enabled)
  \/ \E id \in OwnedIds : TestStart(Main, Caller, id)
  \/ \E id \in OwnedIds : RefreshToolsStart(Main, Caller, id)
  \/ ToolSteps(Main)
  \/ SysSteps(Main)

SpecOwners == InitOwners /\ [][NextOwners]_vars

\* the application starts on a store that holds one sse server
InitUpdate ==
  /\ store = {Persisted(CHOOSE n \in UserNames \ YamlNames : TRUE)}
  /\ nextId = 1
  /\ yamlOverrideEnabled = FALSE
  /\ connections = [n \in Names |-> FALSE]
  /\ liveConns = [n \in Names |-> 0]
  /\ mcpConfigs = EmptyConfigs
  /\ discovered = [n \in Names |-> {}]
  /\ toolsGlobal = Cached(BaseTools)
  /\ derivedCaches = [tools |-> FALSE, plugins |-> FALSE, mcpTools |-> {}]
  /\ boot = [pc |-> "merge", cfg |-> EmptyConfigs, tmp |-> NoTools, err |-> ""]
  /\ procs = [p \in Procs |-> Idle]
  /\ mergeOut = NoCall
  /\ flows = NoFlows
  /\ published = << >>

\* the bodies of the update requests: a type alone, a config alone, a type
\* with a config that suits it and with one that does not, a description
\* with a config as in testServerUpdate, and runtime fields
Bodies ==
  {[NoUpdate EXCEPT !.input = [type |-> t, config |-> NoConfig]] :
     t \in {"websocket", "stdio"}}
    \cup {[NoUpdate EXCEPT !.input = [type |-> "", config |-> UrlConfig(u)]] :
            u \in {"ws://h"}}
    \cup {[NoUpdate EXCEPT !.input = [type |-> "sse", config |-> UrlConfig(u)]] :
            u \in {"http://h", "wss://h"}}
    \cup {[NoUpdate EXCEPT !.description = "d",
                           !.input = [type |-> "", config |-> UrlConfig("http://h")]]}
    \cup {[NoUpdate EXCEPT !.status = "online"],
          [NoUpdate EXCEPT !.tools = ToolsField([t \in {"t1"} |-> FALSE])]}

\* Updates: startup, then the stored server is updated through
\* PUT /servers/:id and tested through POST /servers/:id/test, one request
\* at a time
NextUpdate ==
  \/ Startup
  \/ \E userId \in Users, id \in 1..(MaxServers + 1), body \in Bodies :
       PutServer(Main, userId, id, body)
  \/ \E userId \in Users, id \in 1..(MaxServers + 1) : TestStart(Main, userId, id)
  \/ TestConnect(Main)
  \/ TestDiscover(Main)
  \/ TestStatus(Main)
  \/ TestTools(Main)
  \/ SysSteps(Main)

SpecUpdate == InitUpdate /\ [][NextUpdate]_vars

\* Merging what was stored: startup, then the type of the stored server is
\* changed through PUT /servers/:id, with a body that carries the type alone,
\* and the merged configuration of a user is asked for
NextMergeStored ==
  \/ Startup
  \/ \E userId \in Users, id \in 1..(MaxServers + 1),
        type \in {"websocket", "streamable-http"} :
       PutServer(Main, userId, id,
                 [NoUpdate EXCEPT !.input = [type |-> type, config |-> NoConfig]])
  \/ SysSteps(Main)
  \/ \E userId \in Users : GetMergedConfig(userId)

SpecMergeStored == InitUpdate /\ [][NextMergeStored]_vars

\* the application is up, none of its servers could be connected, and the
\* store and the override flag are any the service operations can leave
InitMerge ==
  /\ store \in DrawnStores
  /\ nextId = Cardinality(store) + 1
  /\ yamlOverrideEnabled \in BOOLEAN
  /\ connections = [n \in Names |-> FALSE]
  /\ liveConns = [n \in Names |-> 0]
  /\ mcpConfigs = yamlConfig
  /\ discovered = [n \in Names |-> {}]
  /\ toolsGlobal = NoTools
  /\ derivedCaches = [tools |-> FALSE, plugins |-> FALSE, mcpTools |-> {}]
  /\ boot = [pc |-> "done", cfg |-> yamlConfig, tmp |-> NoTools, err |-> ""]
  /\ procs = [p \in Procs |-> Idle]
  /\ mergeOut = NoCall
  /\ flows = NoFlows
  /\ published = << >>

\* Merged configuration: getMergedMCPConfig called on any store
NextMerge == \E userId \in Users \cup {NoUser} : GetMergedConfig(userId)

SpecMerge == InitMerge /\ [][NextMerge]_vars

\* the flow ids a flow may name as its toolFlowId: none, or the flow of the
\* same user that a connection attempt waits on
ToolFlowIds(flowId) == IF flowId = "u1:a" THEN {"", "u1:a:t"} ELSE {""}

\* the query strings of the callbacks, as <<state, code, error>>: a state and
\* a code, and one query each with an error, without code and without state
CallbackQueries ==
  ({"u1:a", "system:a"} \X Codes \X {""})
    \cup {<<"u1:a", "c1", "access_denied">>, <<"u1:a", "", "">>, <<"", "c1", "">>}

\* the application starts on an empty store and an empty flow-state store
InitOAuth ==
  /\ store = {}
  /\ nextId = 1
  /\ yamlOverrideEnabled = FALSE
  /\ connections = [n \in Names |-> FALSE]
  /\ liveConns = [n \in Names |-> 0]
  /\ mcpConfigs = EmptyConfigs
  /\ discovered = [n \in Names |-> {}]
  /\ toolsGlobal = Cached(BaseTools)
  /\ derivedCaches = [tools |-> FALSE, plugins |-> FALSE, mcpTools |-> {}]
  /\ boot = [pc |-> "merge", cfg |-> EmptyConfigs, tmp |-> NoTools, err |-> ""]
  /\ procs = [p \in Procs |-> Idle]
  /\ mergeOut = NoCall
  /\ flows = NoFlows
  /\ published = << >>

\* OAuth: startup, then flows are created and the callback and get-tokens
\* routes are called, one request at a time; a state that matches no flow is
\* the id of a flow that has not been created
NextOAuth ==
  \/ Startup
  \/ \E flowId \in FlowIds :
       \E toolFlowId \in ToolFlowIds(flowId) : CreateFlow(flowId, toolFlowId)
  \/ \E q \in CallbackQueries : OAuthCallback(Main, q[1], q[2], q[3])
  \/ CompleteOAuthFlow(Main)
  \/ CompleteToolFlow(Main)
  \/ \E userId \in Users \cup {""}, flowId \in FlowIds : GetTokens(Main, userId, flowId)

SpecOAuth == InitOAuth /\ [][NextOAuth]_vars

\* Catalog keys: tools are published by servers of any accepted name; the
\* tools have plain names or names that contain the delimiter, the names given
\* to servers in create requests are plain, contain the delimiter, or are
\* empty or blank
NextKeys ==
  \E toolName \in { <<"t">>, <<"u">>, <<"t", mcp_delimiter, "a">> },
     name \in { <<"a">>, <<"b">>, <<"a", mcp_delimiter, "b">>, <<"b", " ", "a">>,
                <<"a", " ">>, << >>, <<" ">> } :
    PublishTool(toolName, name)

SpecKeys == InitOAuth /\ [][NextKeys]_vars

\* ------------------------------------------------------------------------
\* Validation applied to one value again and again
\* ------------------------------------------------------------------------
\* validateServerConfig(procs[p].input): the slot keeps the value as the
\* call leaves it, the verdict of the call and, in hist, the verdicts of the
\* last two calls
Validate(p) ==
  /\ procs[p].op \in {"none", "validate"}
  /\ LET call == ValidateCall(procs[p].input)
         hist == procs[p].hist IN
       procs' = [procs EXCEPT ![p] =
         [Done("validate", "", call.verdict)
            EXCEPT !.input = call.serverData,
                   !.hist = IF Len(hist) < 2 THEN Append(hist, call.verdict)
                            ELSE <<hist[2], call.verdict>>]]
  /\ UNCHANGED <<storeVars, managerVars, cacheVars, boot, mergeOut, flows, published>>

\* the value under validation is one of the request bodies, a body without
\* data, an accepted stdio or websocket body, a stdio body without args or a
\* body of a type the function does not know
InitValidate ==
  /\ store = {}
  /\ nextId = 1
  /\ yamlOverrideEnabled = FALSE
  /\ connections = [n \in Names |-> FALSE]
  /\ liveConns = [n \in Names |-> 0]
  /\ mcpConfigs = EmptyConfigs
  /\ discovered = [n \in Names |-> {}]
  /\ toolsGlobal \in {NoTools, Cached(BaseTools)}
  /\ derivedCaches = [tools |-> FALSE, plugins |-> FALSE, mcpTools |-> {}]
  /\ boot = [pc |-> "merge", cfg |-> EmptyConfigs, tmp |-> NoTools, err |-> ""]
  /\ \E serverData \in ServerInputs \cup
         { NoInput,
           [type |-> "stdio", config |-> StdioConfig("a", "array")],
           [type |-> "stdio", config |-> StdioConfig("a", "missing")],
           [type |-> "websocket", config |-> UrlConfig("ws://h")],
           [type |-> "other", config |-> UrlConfig("")] } :
       procs = [p \in Procs |-> IF p = Main THEN [Idle EXCEPT !.input = serverData] ELSE Idle]
  /\ mergeOut = NoCall
  /\ flows = NoFlows
  /\ published = << >>

NextValidate ==
  \/ Startup
  \/ Validate(Main)

SpecValidate == InitValidate /\ [][NextValidate]_vars

\* Create with a failing refresh: startup, then creates, one call at a time,
\* whose system refresh may reject at any of its awaited calls
NextCreateFails ==
  \/ Startup
  \/ \E userId \in Users, name \in UserNames, input \in ServerInputs :
       CreateUserServer(Main, userId, name, input)
  \/ SysSteps(Main)
  \/ SysThrows(Main)

SpecCreateFails == Init /\ [][NextCreateFails]_vars

\* ------------------------------------------------------------------------
\* Status probe: POST /status, one server configuration of the body
\* ------------------------------------------------------------------------
\* setTimeout(() => controller.abort(), 5000): milliseconds
ProbeTimeout == 5000
\* time is counted in steps of a tenth of the probe timer, 500 ms
TickMs == ProbeTimeout \div 10
\* the url "https://h" is a server that answers, any other url a host that
\* cannot be reached
Reachable(url) == url = "https://h"

\* the probe of one serverConfig up to its first await: invalid
\* configurations, stdio, websocket and unknown types are answered at once,
\* an sse or streamable-http server with a url starts the abort timer and the
\* HEAD request; name, type and url are read from the configuration, its
\* initTimeout is not
StatusStart(p, name, type, url, initTimeout) ==
  /\ Free(p)
  /\ LET req(pc, res) ==
           [Idle EXCEPT !.op = "status", !.pc = pc, !.arg = name, !.res = res,
                        !.input = [type |-> type, config |-> UrlConfig(url)],
                        !.initTimeout = initTimeout] IN
       procs' = [procs EXCEPT ![p] =
         IF name = "" \/ type = "" THEN req("done", "Error")
         ELSE IF type = "stdio" THEN req("done", "Configured")
         ELSE IF type \in WebTypes THEN
           IF url = "" THEN req("done", "Error")
           ELSE IF type \in {"sse", "streamable-http"} THEN req("fetch", "")
           ELSE req("done", "Unsupported")
         ELSE req("done", "Unsupported")]
  /\ UNCHANGED <<storeVars, managerVars, cacheVars, boot, mergeOut, flows, published>>

\* time passes while the HEAD request is pending; the abort timer fires at
\* ProbeTimeout, so a pending request does not see a later time
StatusTick(p) ==
  /\ At(p, "status", "fetch")
  /\ procs[p].elapsed < ProbeTimeout
  /\ procs' = [procs EXCEPT ![p].elapsed = @ + TickMs]
  /\ UNCHANGED <<storeVars, managerVars, cacheVars, boot, mergeOut, flows, published>>

\* await fetch(url, { signal, method: 'HEAD' }) settles by itself: a server
\* that answers gives 'Online' (ok, redirect or 405) or 'Offline' (any other
\* HTTP status), a refused or failed connection rejects and gives 'Offline'
StatusFetchSettles(p) ==
  /\ At(p, "status", "fetch")
  /\ \E res \in IF Reachable(procs[p].input.config.url)
                 THEN {"Online", "Offline"} ELSE {"Offline"} :
       procs' = [procs EXCEPT ![p] = Finish(p, res)]
  /\ UNCHANGED <<storeVars, managerVars, cacheVars, boot, mergeOut, flows, published>>

\* the timer calls controller.abort(): fetch rejects and the probe answers
\* 'Offline'
StatusAbort(p) ==
  /\ At(p, "status", "fetch")
  /\ procs[p].elapsed = ProbeTimeout
  /\ procs' = [procs EXCEPT ![p] = Finish(p, "Offline")]
  /\ UNCHANGED <<storeVars, managerVars, cacheVars, boot, mergeOut, flows, published>>

\* Status: startup, then status probes, one request at a time; a server
\* configuration of the body has a name or none, a type of any kind or none,
\* a url (absent, of a server that answers, of a host that cannot be
\* reached) and an initTimeout
NextStatus ==
  \/ Startup
  \/ \E name \in {"", "a"},
        type \in {"", "stdio", "sse", "streamable-http", "websocket", "other"},
        url \in {"", "https://h", "https://unreachable"},
        initTimeout \in {TickMs, ProbeTimeout} :
       StatusStart(Main, name, type, url, initTimeout)
  \/ StatusTick(Main)
  \/ StatusFetchSettles(Main)
  \/ StatusAbort(Main)

SpecStatus == InitOAuth /\ [][NextStatus]_vars

\* ------------------------------------------------------------------------
\* Properties
\* ------------------------------------------------------------------------
\* C1: after any completed refresh (refresh-one, refresh-all, or the system
\* refresh of a store-writing operation) the catalog holds, for every server,
\* exactly the tools of its latest successful discovery, and none of its
\* tools when its latest connect attempt failed or it was removed
CatalogMatchesLatestDiscovery ==
  \A p \in Procs :
    ( /\ procs[p].pc = "done"
      /\ \/ procs[p].op \in {"refreshOne", "refreshAll"} /\ procs[p].res = "200"
         \/ procs[p].op \in SysOps /\ procs[p].res = "ok" )
    => \A n \in Names :
         EntriesOf(toolsGlobal.keys, n) =
           IF connections[n] THEN {Key(t, n) : t \in discovered[n]} ELSE {}

ReaderNeverSeesTornDownServer ==
  \A n \in Names : EntriesOf(toolsGlobal.keys, n) # {} => connections[n]

RefreshOneUpdatesRuntimeState ==
  \A p \in Procs :
    (procs[p].op = "refreshOne" /\ procs[p].pc = "done" /\ procs[p].res = "200")
    => \A r \in store :
         r.name = procs[p].arg =>
           IF connections[r.name]
           THEN r.status = "online" /\ r.lastConnected
           ELSE /\ r.status = "error" /\ r.errorMessage
                /\ EntriesOf(toolsGlobal.keys, r.name) = {}

\* C6: while one server is refreshed and after it, the catalog entries of
\* every other server stay as they are at every step
OtherServersUntouchedByRefreshOne ==
  [][\A p \in Procs :
       (procs[p].op = "refreshOne" /\ procs[p].pc \notin {"idle", "done"})
       => \A n \in Names \ {procs[p].arg} :
            EntriesOf(toolsGlobal'.keys, n) = EntriesOf(toolsGlobal.keys, n)]_vars

\* C7: the merged configuration of a user is the file entries plus the
\* user's enabled servers, the user's entry replacing a file entry of the
\* same name and tagged _userDefined with the owner's _userId; with override
\* mode on it is the file configuration exactly
MergePrecedence ==
  mergeOut.userId \in Users =>
    LET mine == {r \in store : r.userId = mergeOut.userId /\ r.enabled} IN
    IF yamlOverrideEnabled THEN mergeOut.cfg = yamlConfig
    ELSE /\ DOMAIN mergeOut.cfg = YamlNames \cup {r.name : r \in mine}
         /\ \A n \in DOMAIN mergeOut.cfg :
              IF \E r \in mine : r.name = n
              THEN \E r \in mine :
                     /\ r.name = n
                     /\ mergeOut.cfg[n]._userDefined
                     /\ mergeOut.cfg[n]._userId = r.userId
                     /\ mergeOut.cfg[n].type = r.type
                     /\ mergeOut.cfg[n].config = r.config
              ELSE mergeOut.cfg[n] = yamlConfig[n]

\* a user's enabled server named like a file server has been merged
UserEntryReplacedFileEntry ==
  /\ mergeOut.userId \in Users
  /\ ~yamlOverrideEnabled
  /\ \E r \in store :
       r.userId = mergeOut.userId /\ r.enabled /\ r.name \in YamlNames
  /\ \E n \in YamlNames : mergeOut.cfg[n]._userDefined

\* C8: a disabled user server never appears in the merged configuration:
\* under a file server's name the file entry stays, under a new name no
\* entry is added
DisabledServerExcluded ==
  mergeOut.userId \in Users =>
    \A r \in store :
      (r.userId = mergeOut.userId /\ ~r.enabled) =>
        IF r.name \in YamlNames
        THEN mergeOut.cfg[r.name] = yamlConfig[r.name]
        ELSE r.name \notin DOMAIN mergeOut.cfg

\* the configuration of a user who owns a disabled server has been merged
DisabledServerMerged ==
  /\ mergeOut.userId \in Users
  /\ ~yamlOverrideEnabled
  /\ \E r, q \in store :
       /\ r.userId = mergeOut.userId /\ ~r.enabled /\ r.name \in YamlNames
       /\ q.userId = mergeOut.userId /\ ~q.enabled /\ q.name \notin YamlNames

\* C9: with override mode off, the global-scope merged configuration, and
\* the configuration a system refresh hands to the connection manager,
\* contain every enabled user-defined server
GlobalMergeHasEnabledUserServers ==
  ~yamlOverrideEnabled =>
    \A r \in store :
      r.enabled =>
        /\ r.name \in DOMAIN getMergedMCPConfig(NoUser)
        /\ getMergedMCPConfig(NoUser)[r.name]._userDefined
        /\ \A p \in Procs :
             (procs[p].op \in SysOps /\ procs[p].pc = "sysReinit") =>
               /\ r.name \in DOMAIN procs[p].cfg
               /\ procs[p].cfg[r.name]._userDefined

\* C10: createUserServer with an invalid configuration ends at once with a
\* validation error; the store, the registry and the catalog are unchanged
\* and no system refresh is started
InvalidCreateRejectedBeforeWrite ==
  [][\A p \in Procs :
       LET type == procs'[p].input.type
           config == procs'[p].input.config
           invalid ==
             \/ type = "stdio" /\ config.command = ""
             \/ type \in WebTypes /\ config.url = ""
             \/ type \in WebTypes /\ URLProtocol(config.url) = "throws"
             \/ type = "websocket" /\ URLProtocol(config.url) \notin {"ws:", "wss:"}
             \/ type \in {"sse", "streamable-http"}
                  /\ URLProtocol(config.url) \in {"ws:", "wss:"}
       IN (/\ procs[p].pc \in {"idle", "done"}
           /\ procs'[p] # procs[p]
           /\ procs'[p].op = "create"
           /\ invalid)
          => /\ procs'[p].pc = "done"
             /\ procs'[p].res \in {"Command is required for stdio type",
                                   "URL is required for web-based types",
                                   "Invalid URL format"}
             /\ UNCHANGED <<store, nextId, connections, liveConns, mcpConfigs,
                            toolsGlobal, derivedCaches>>]_vars

\* an invalid websocket configuration has been rejected while the store
\* holds a server
InvalidCreateRejected ==
  \E p \in Procs :
    /\ procs[p].op = "create" /\ procs[p].pc = "done"
    /\ procs[p].input = [type |-> "websocket", config |-> UrlConfig("http://h")]
    /\ procs[p].res = "Invalid URL format"
    /\ store # {}

\* C11: Test Connection leaves the registry and the tool catalog as they
\* were, whether the test succeeds or fails, and when it has ended its
\* temporary connection is disconnected
TestConnectionIsEphemeral ==
  [][\A p \in Procs :
       (procs'[p].op = "test" /\ procs'[p] # procs[p])
       => /\ UNCHANGED <<connections, liveConns, toolsGlobal>>
          /\ procs'[p].pc = "done" => ~procs'[p].probe]_vars

\* a successful test has stored the tools it discovered while the catalog
\* holds the tools of a connected server
TestSucceeded ==
  \E p \in Procs :
    /\ procs[p].op = "test" /\ procs[p].pc = "done" /\ procs[p].res = "success"
    /\ \E r \in store : r.id = procs[p].sid /\ DOMAIN r.tools # {}
    /\ \E n \in Names : connections[n] /\ EntriesOf(toolsGlobal.keys, n) # {}

\* C12: Refresh One Server for a name without a registry entry answers
\* SERVER_NOT_FOUND at once and changes nothing: no cache key is deleted and
\* no connection is disconnected or created
RefreshOneUnknownServerChangesNothing ==
  [][\A p \in Procs :
       (/\ procs[p].pc \in {"idle", "done"}
        /\ procs'[p] # procs[p]
        /\ procs'[p].op = "refreshOne"
        /\ ~connections[procs'[p].arg])
       => /\ procs'[p].pc = "done"
          /\ procs'[p].res = "SERVER_NOT_FOUND"
          /\ UNCHANGED <<connections, liveConns, mcpConfigs, toolsGlobal, derivedCaches>>]_vars

\* a refresh of an unregistered server has been refused while the catalog
\* and the derived caches are filled
RefreshOneRefused ==
  \E p \in Procs :
    /\ procs[p].op = "refreshOne" /\ procs[p].pc = "done"
    /\ procs[p].res = "SERVER_NOT_FOUND"
    /\ ~connections[procs[p].arg]
    /\ \E n \in Names : EntriesOf(toolsGlobal.keys, n) # {}
    /\ derivedCaches.tools

\* C13: a server whose last connect attempt failed is retried by an explicit
\* refresh: a refresh of a name the manager holds a configuration for is not
\* answered with SERVER_NOT_FOUND, and Refresh All is not answered with
\* nothing to refresh while the manager holds configurations
FailedServerIsRetried ==
  \A p \in Procs :
    procs[p].pc = "done" =>
      /\ (procs[p].op = "refreshOne" /\ procs[p].res = "SERVER_NOT_FOUND")
           => procs[p].arg \notin DOMAIN mcpConfigs
      /\ (procs[p].op = "refreshAll" /\ procs[p].res = "NO_SERVERS")
           => DOMAIN mcpConfigs = {}

RefreshAllReportIsComplete ==
  [][\A p \in Procs :
       (/\ procs[p].op = "refreshAll" /\ procs[p].pc = "respond"
        /\ procs'[p].pc = "done")
       => /\ procs'[p].names \cup procs'[p].failed = procs[p].names
          /\ procs'[p].names \cap procs'[p].failed = {}
          /\ \A n \in procs'[p].names : connections[n]
          /\ \A n \in procs'[p].failed : ~connections[n]]_vars

StartupNeverThrows ==
  [][/\ boot'.pc # "threw"
     /\ boot.pc = "catch" => boot'.pc = "done"
     /\ (boot.pc = "set" /\ boot'.pc = "deleteTools") =>
          \A n \in DOMAIN boot.cfg :
            EntriesOf(toolsGlobal'.keys, n) =
              IF connections'[n] THEN {Key(t, n) : t \in discovered'[n]} ELSE {}]_vars

\* startup has returned after a rejected call, one server failed to connect
\* and another one is connected and its tools are published
StartupReturnedAfterFailure ==
  /\ boot.pc = "done" /\ boot.err # ""
  /\ \E n, m \in DOMAIN boot.cfg :
       /\ ~connections[n]
       /\ connections[m]
       /\ EntriesOf(toolsGlobal.keys, m) # {}

\* C19: whenever initializeMCP has returned, the tools key of the cache
\* store is absent
StartupDeletesToolsKey ==
  [][(boot.pc # "done" /\ boot'.pc = "done") => ~derivedCaches'.tools]_vars

\* C20: the store never holds two servers of one user under one name; a
\* create or an update that would make two ends with 'already exists' and
\* leaves the store as it was; a create under a name that only other users
\* own inserts the record
NamesUniquePerUser ==
  [][/\ \A r, q \in store' :
          (r.userId = q.userId /\ r.name = q.name) => r.id = q.id
     /\ \A p \in Procs :
          (procs[p].pc \in {"idle", "done"} /\ procs'[p] # procs[p]) =>
            /\ (procs'[p].op = "create"
                  /\ \E r \in store :
                       r.userId = procs'[p].uid /\ r.name = procs'[p].arg)
               => (procs'[p].res = "already exists" /\ store' = store)
            /\ (procs'[p].op = "create"
                  /\ ~\E r \in store :
                        r.userId = procs'[p].uid /\ r.name = procs'[p].arg)
               => \E r \in store' \ store :
                    r.userId = procs'[p].uid /\ r.name = procs'[p].arg
            /\ (procs'[p].op = "update"
                  /\ \E r, q \in store :
                       /\ r.id = procs'[p].sid /\ r.userId = procs'[p].uid
                       /\ q.id # r.id /\ q.userId = r.userId
                       /\ q.name = procs'[p].arg)
               => (procs'[p].res = "already exists" /\ store' = store)]_vars

\* two users own a server of the same name, and a create or update of a
\* second server of that name for one of them has been refused
SharedNameAndRefusedDuplicate ==
  /\ \E r, q \in store : r.name = q.name /\ r.userId # q.userId
  /\ \E p \in Procs :
       /\ procs[p].op \in {"create", "update"}
       /\ procs[p].pc = "done" /\ procs[p].res = "already exists"
       /\ \E r, q \in store :
            r.name = procs[p].arg /\ q.name = procs[p].arg /\ r.userId # q.userId

MergedConfigHasOnlyOwnServers ==
  \A n \in DOMAIN mergeOut.cfg :
    IF mergeOut.cfg[n]._userDefined
    THEN /\ mergeOut.cfg[n]._userId = mergeOut.userId
         /\ \E r \in store :
              /\ r.id = mergeOut.cfg[n]._serverId
              /\ r.userId = mergeOut.userId /\ r.name = n
    ELSE n \in YamlNames /\ mergeOut.cfg[n] = yamlConfig[n]

\* the configuration has been merged for a user who owns an enabled server,
\* while another user owns an enabled server too
MergedWhileOtherUserHasServer ==
  /\ mergeOut.userId \in Users
  /\ \E n \in DOMAIN mergeOut.cfg : mergeOut.cfg[n]._userDefined
  /\ \E r \in store : r.userId # mergeOut.userId /\ r.enabled

\* C23: every stored server has a configuration that suits its type: a stdio
\* server a non-empty command, a websocket server a ws: or wss: url, an sse
\* or streamable-http server a url that is neither
StoredConfigSuitsType ==
  \A r \in store :
    /\ r.type = "stdio" => r.config.command # ""
    /\ r.type \in WebTypes =>
         /\ r.config.url # ""
         /\ URLProtocol(r.config.url) # "throws"
         /\ r.type = "websocket" <=> URLProtocol(r.config.url) \in {"ws:", "wss:"}

\* C24: the step of an update request changes none of the runtime fields
\* status, errorMessage, lastConnected and tools of a record
UpdateKeepsRuntimeFields ==
  [][\A p \in Procs :
       (procs[p].pc \in {"idle", "done"} /\ procs'[p] # procs[p]
          /\ procs'[p].op = "update")
       => \A r \in store, q \in store' :
            r.id = q.id =>
              /\ r.status = q.status
              /\ r.errorMessage = q.errorMessage
              /\ r.lastConnected = q.lastConnected
              /\ r.tools = q.tools]_vars

\* C29: an update of an own server whose body has a description and a valid
\* config but no type is carried out: it does not end with an error, and the
\* record has the new description and config and the type it had
UpdateWithoutTypeSucceeds ==
  [][\A p \in Procs :
       (procs[p].pc \in {"idle", "done"} /\ procs'[p] # procs[p]
          /\ procs'[p].op = "update"
          /\ procs'[p].body.description # ""
          /\ procs'[p].body.input.type = ""
          /\ procs'[p].body.input.config.defined)
       => \A r \in store :
            (/\ r.id = procs'[p].sid /\ r.userId = procs'[p].uid
             /\ validateServerConfig(r.type, procs'[p].body.input.config) = "ok")
            => /\ procs'[p].pc = "sysMerge" \/ procs'[p].res = "ok"
               /\ \E q \in store' :
                    /\ q.id = r.id /\ q.type = r.type
                    /\ q.description = procs'[p].body.description
                    /\ q.config = procs'[p].body.input.config]_vars

\* the test operation taken alone: testServerConnection on a stored server
\* first sets the status connecting; when it ends the status is online, with the error message
\* cleared and lastConnected set, or error, with an error message and
\* lastConnected as it was before the test; and no other step changes
\* lastConnected
TestFollowsStatusMachine ==
  [][\A p \in Procs :
       procs'[p] # procs[p] =>
         /\ (procs[p].pc \in {"idle", "done"} /\ procs'[p].op = "test"
               /\ procs'[p].pc # "done")
            => \A q \in store' : q.id = procs'[p].sid => q.status = "connecting"
         /\ (procs[p].pc \notin {"idle", "done"} /\ procs'[p].op = "test"
               /\ procs'[p].pc = "done")
            => \A q \in store' :
                 q.id = procs'[p].sid =>
                   IF procs'[p].res = "success"
                   THEN q.status = "online" /\ ~q.errorMessage /\ q.lastConnected
                   ELSE /\ q.status = "error" /\ q.errorMessage
                        /\ \A r \in store : r.id = q.id => r.lastConnected = q.lastConnected
         /\ \A r \in store, q \in store' :
              (r.id = q.id /\ r.lastConnected # q.lastConnected)
              => procs[p].op = "test" /\ procs[p].res = "success"]_vars

\* a server that was tested with success before has been tested again and
\* this test has failed: its status is error and lastConnected is kept
TestFailedAfterSuccess ==
  \E p \in Procs :
    /\ procs[p].op = "test" /\ procs[p].pc = "done" /\ procs[p].res = "failed"
    /\ \E r \in store :
         r.id = procs[p].sid /\ r.status = "error" /\ r.lastConnected

\* C25 (as stated): the stored status of a server changes only to
\* connecting, from connecting to online or error, or to offline when the
\* server is disabled, and lastConnected changes only when a test succeeds
StatusFollowsStateMachine ==
  [][\A r \in store, q \in store' :
       r.id = q.id =>
         /\ r.status # q.status =>
              \/ q.status = "connecting"
              \/ r.status = "connecting" /\ q.status \in {"online", "error"}
              \/ q.status = "offline" /\ ~q.enabled
         /\ r.lastConnected # q.lastConnected =>
              \E p \in Procs : procs[p].op = "test" /\ procs'[p].res = "success"]_vars

\* C26: the step that ends a refresh-tools request of a stored server
\* answers with success; when the tool listing has failed the server is
\* left with no stored tool, and otherwise with the discovered tools, each
\* of them enabled
RefreshToolsNeverThrows ==
  [][\A p \in Procs :
       (procs[p].op = "refreshTools" /\ procs[p].pc = "toolsDiscover"
          /\ procs'[p].pc = "done")
       => /\ procs'[p].res = "ok"
          /\ \A q \in store' :
               (q.id = procs[p].sid /\ q.userId = procs[p].uid) =>
                 /\ procs'[p].failed # {} => DOMAIN q.tools = {}
                 /\ procs'[p].failed = {} => DOMAIN q.tools \in ToolSets(q.name)
                 /\ \A t \in DOMAIN q.tools : q.tools[t]]_vars

\* a refresh-tools request whose tool listing failed has ended with success
\* and its server has no stored tool
RefreshEndedAfterListingFailure ==
  \E p \in Procs :
    /\ procs[p].op = "refreshTools" /\ procs[p].pc = "done"
    /\ procs[p].res = "ok" /\ procs[p].failed # {}
    /\ \E r \in store : r.id = procs[p].sid /\ r.tools = NoToolList

\* C30: a toggle-tool request on a stored tool of a server of the caller
\* ends with success and leaves that tool's flag at the requested value and
\* every other tool of the server as it was; on a server or a tool that
\* does not exist it answers not found and changes nothing
ToggleToolSetsFlag ==
  [][\A p \in Procs :
       (procs'[p] # procs[p] /\ procs'[p].op = "toggleTool" /\ procs'[p].pc = "done")
       => LET want == procs'[p].body.tools.list
              owned == {r \in store : r.id = procs'[p].sid /\ r.userId = procs'[p].uid}
          IN
          /\ owned = {} => procs'[p].res = "Server not found" /\ store' = store
          /\ \A r \in owned :
               IF DOMAIN want \subseteq DOMAIN r.tools
               THEN /\ procs'[p].res = "ok"
                    /\ \E q \in store' :
                         /\ q.id = r.id
                         /\ DOMAIN q.tools = DOMAIN r.tools
                         /\ \A t \in DOMAIN r.tools :
                              q.tools[t] = IF t \in DOMAIN want THEN want[t] ELSE r.tools[t]
               ELSE procs'[p].res = "Tool not found" /\ store' = store]_vars

\* C27: the step of a callback that completes the chained tool flow is taken
\* when the main flow is already COMPLETED, and leaves the tool flow
\* COMPLETED with the tokens of the main flow; a callback whose flow names a
\* tool flow does not end with success before that step; a callback with an
\* error, without code, without state or with a state that matches no flow
\* ends at once with a redirect to the error page and changes no flow; and
\* no other step completes a flow
ChainedFlowCompletedAfterMain ==
  [][\A p \in Procs :
       LET f == procs[p].arg IN
       /\ (procs[p].pc \in {"idle", "done"} /\ procs'[p] # procs[p]
             /\ procs'[p].op = "callback"
             /\ \/ procs'[p].oauthError # ""
                \/ procs'[p].code = ""
                \/ procs'[p].arg = ""
                \/ getFlowState(procs'[p].arg).status = "NONE")
          => /\ procs'[p].pc = "done"
             /\ procs'[p].res \in {"access_denied", "missing_code", "missing_state",
                                   "invalid_state"}
             /\ flows' = flows
       /\ (At(p, "callback", "completeFlow") /\ procs'[p] # procs[p])
          => /\ flows[f].status = "COMPLETED"
             /\ flows[f].result = procs[p].tokens
             /\ procs'[p].pc = "done" /\ procs'[p].res = "success"
             /\ \A g \in procs[p].names :
                  flows[g].status # "NONE" =>
                    flows'[g].status = "COMPLETED" /\ flows'[g].result = flows'[f].result
       /\ (At(p, "callback", "completeOAuthFlow") /\ procs'[p].pc = "done"
             /\ procs'[p].res = "success")
          => procs[p].names = {} /\ flows'[f].status = "COMPLETED"
       /\ \A g \in FlowIds :
            (flows'[g] # flows[g] /\ flows'[g].status = "COMPLETED")
            => \E q \in Procs :
                 \/ At(q, "callback", "completeOAuthFlow") /\ procs[q].arg = g
                 \/ At(q, "callback", "completeFlow") /\ g \in procs[q].names]_vars

\* a callback has ended with success on a flow that names a tool flow, and
\* both flows are COMPLETED with the tokens of the callback
ChainedFlowCompleted ==
  \E p \in Procs :
    /\ procs[p].op = "callback" /\ procs[p].pc = "done" /\ procs[p].res = "success"
    /\ procs[p].names # {}
    /\ flows[procs[p].arg].status = "COMPLETED"
    /\ flows[procs[p].arg].result = procs[p].tokens
    /\ \A g \in procs[p].names :
         flows[g].status = "COMPLETED" /\ flows[g].result = procs[p].tokens

\* C28: a get-tokens request answers 200 with the tokens of the flow exactly
\* when it has a user, the flow id starts with the user's id and ':' or with
\* 'system:', and the flow is stored and COMPLETED; otherwise it answers
\* 401, 403, 404 or 400 without tokens; so the tokens of a flow whose id
\* starts with another user's id are never disclosed
TokensOnlyForOwnFlows ==
  [][\A p \in Procs :
       (procs'[p] # procs[p] /\ procs'[p].op = "getTokens")
       => LET userId == procs'[p].uid
              flowId == procs'[p].arg
              allowed == /\ userId # ""
                         /\ \/ startsWith(flowId, UserPrefix(userId))
                            \/ startsWith(flowId, "system:")
                         /\ flows[flowId].status = "COMPLETED"
          IN
          /\ procs'[p].pc = "done"
          /\ flows' = flows
          /\ IF allowed
             THEN procs'[p].res = "200" /\ procs'[p].tokens = flows[flowId].result
             ELSE procs'[p].res \in {"401", "403", "404", "400"} /\ procs'[p].tokens = ""
          /\ \A other \in Users \ {userId} :
               startsWith(flowId, UserPrefix(other)) => procs'[p].tokens = ""]_vars

\* a user has asked for the tokens of another user's COMPLETED flow and the
\* answer was 403 without tokens
ForeignTokensRefused ==
  \E p \in Procs :
    /\ procs[p].op = "getTokens" /\ procs[p].pc = "done" /\ procs[p].res = "403"
    /\ procs[p].uid \in Users /\ procs[p].tokens = ""
    /\ \E other \in Users \ {procs[p].uid} : startsWith(procs[p].arg, UserPrefix(other))
    /\ flows[procs[p].arg].status = "COMPLETED"

MalformedEntrySkipped ==
  [][mergeOut' # mergeOut =>
       LET mine == IF yamlOverrideEnabled THEN {}
                   ELSE {r \in store : r.userId = mergeOut'.userId /\ r.enabled}
           valid == {r \in mine : validateServerConfig(r.type, r.config) = "ok"}
       IN
       /\ DOMAIN mergeOut'.cfg = YamlNames \cup {r.name : r \in valid}
       /\ \A n \in DOMAIN mergeOut'.cfg :
            mergeOut'.cfg[n]._userDefined =>
              validateServerConfig(mergeOut'.cfg[n].type, mergeOut'.cfg[n].config) = "ok"]_vars

\* C33: in every state the toolCount of every stored server is the number
\* of entries of its tools list
ToolCountMatchesTools ==
  \A r \in store : r.toolCount = Cardinality(DOMAIN r.tools)

\* C34: in every state a stored server whose status is not error has no
\* error message
ErrorMessageOnlyWithError ==
  \A r \in store : r.status # "error" => ~r.errorMessage

\* C35: two publications of different (toolName, serverName) pairs never
\* have the same catalog key, and the server name the client takes from the
\* key of a publication, its last segment, is the name of the publishing
\* server
KeysDistinctAndServerRecovered ==
  /\ \A i, j \in 1..Len(published) :
       published[i].pluginKey = published[j].pluginKey =>
         /\ published[i].toolName = published[j].toolName
         /\ published[i].serverName = published[j].serverName
  /\ \A i \in 1..Len(published) : published[i].selected = published[i].serverName

UnreachableProbeFailsInTime ==
  \A p \in Procs :
    (/\ procs[p].op = "status"
     /\ procs[p].arg # ""
     /\ procs[p].input.type \in WebTypes
     /\ procs[p].input.config.url # ""
     /\ ~Reachable(procs[p].input.config.url))
    => /\ procs[p].elapsed <= procs[p].initTimeout
       /\ procs[p].pc = "done" => procs[p].res \in {"Error", "Offline"}

\* the probe taken by its own timer: a pending HEAD request is never seen
\* past ProbeTimeout, and an sse or streamable-http probe of an unreachable
\* url that has resolved has resolved to 'Offline'
ProbeBoundedByOwnTimer ==
  \A p \in Procs :
    procs[p].op = "status"
    => /\ procs[p].elapsed <= ProbeTimeout
       /\ (/\ procs[p].pc = "done"
           /\ procs[p].input.type \in {"sse", "streamable-http"}
           /\ procs[p].arg # ""
           /\ procs[p].input.config.url # ""
           /\ ~Reachable(procs[p].input.config.url))
          => procs[p].res = "Offline"

\* a probe of a host that never answered has been ended by the abort timer
ProbeAborted ==
  \E p \in Procs :
    /\ At(p, "status", "done")
    /\ ~Reachable(procs[p].input.config.url)
    /\ procs[p].elapsed = ProbeTimeout
    /\ procs[p].res = "Offline"

\* C39: a create that has ended with an error has left no record of its own
\* in the store, and a create that has ended with success has left one
CreateIsAllOrNothing ==
  \A p \in Procs :
    At(p, "create", "done")
    => (procs[p].res = "ok" <=> \E r \in store : r.id = procs[p].sid)

\* C40: the step of refresh-tools or of a successful test that writes the
\* discovered tools leaves every tool that was switched off and is still
\* exposed switched off in the stored tool list
OverrideSurvivesRediscovery ==
  [][\A p \in Procs :
       (/\ At(p, "refreshTools", "toolsDiscover") \/ At(p, "test", "testTools")
        /\ procs'[p].pc = "done")
       => \A r \in store, q \in store' :
            q.id = r.id
            => \A t \in DOMAIN r.tools \cap DOMAIN q.tools :
                 ~r.tools[t] => ~q.tools[t]]_vars

====
